---- MODULE Spec2Model ----
(***************************************************************************)
(* State-machine model of pulsectl_asyncio.PulseAsync                      *)
(* (src/pulsectl_asyncio/pulsectl_async.py): the request/future bridge     *)
(* _pulse_op_cb, the native state callback _pulse_state_cb, the            *)
(* disconnect race _wait_disconnect_or and the event / peak-sample         *)
(* streams, running on a single-threaded asyncio event loop.               *)
(*                                                                         *)
(* The event loop is modelled as asyncio runs it: a FIFO list of ready     *)
(* handles executed in batches (every handle that is ready when an         *)
(* iteration starts is run in that iteration; handles scheduled meanwhile  *)
(* wait for the next one).  I/O readiness of the libpulse socket, timers   *)
(* of other tasks (task.cancel) and task creation join the list at an      *)
(* iteration boundary.                                                     *)
(***************************************************************************)
EXTENDS Integers, Sequences, FiniteSets, TLC

\* ---------------------------------------------------------------- bounds
NumOps == 2          \* direct request tasks (_pulse_method_call wrappers)
NumStreams == 2      \* tasks iterating subscribe_events()
MaxEvents == 2       \* notifications / samples the server pushes in one run
MaxCancels == 1      \* tasks the application cancels in one run
NumConnects == 2     \* connect() calls on the instance in one run
MaxCloses == 2       \* close() calls on the instance in one run
MaxRecords == 2      \* info records the server delivers for one query

Ops == 1..NumOps
Streams == 1..NumStreams

Kop == "op"          \* a task awaiting one direct request
Kev == "ev"          \* a task iterating subscribe_events()
Kpk == "pk"          \* a task iterating subscribe_peak_sample()
Kconn == "conn"      \* the task awaiting connect()
Kgp == "gp"          \* the task awaiting get_peak_sample()

\* Tasks are pairs <<kind, number>>.
OpTasks == {Kop} \X Ops
EvTasks == {Kev} \X Streams
PkTasks == {Kpk} \X {1}
ConnTasks == {Kconn} \X {1}
Reconnects == {Kconn} \X (2..NumConnects)      \* tasks awaiting a later connect()
AllConn == ConnTasks \cup Reconnects
Racers == EvTasks \cup PkTasks \cup AllConn       \* callers of _wait_disconnect_or
GpTasks == {Kgp} \X {1}
Tasks == OpTasks \cup Racers \cup GpTasks

\* Futures created by _pulse_op_cb.__aenter__: one per direct request, and per
\* event stream one for _event_mask_set(*masks) and one for _event_mask_set('null').
MaskFut(s) == NumOps + s
NullFut(s) == NumOps + NumStreams + s
FutIds == 1..(NumOps + 2 * NumStreams)

\* Native context handles: the one made by __init__ and one per reinitialising
\* connect().  (ctxReleased also counts, under 0, unref calls made with None.)
CtxIds == 1..NumConnects

\* connSaw before the task has issued context_connect.
NoCall == [handle |-> 0, state |-> "none", connected |-> FALSE, disconnected |-> FALSE]

\* The task that awaits a future (the one inside `async with _pulse_op_cb`).
AwaiterOf(f) ==
  IF f <= NumOps THEN <<Kop, f>>
  ELSE IF f <= NumOps + NumStreams THEN <<Kev, f - NumOps>>
  ELSE <<Kev, f - NumOps - NumStreams>>

VARIABLES
  ready,            \* asyncio loop._ready: FIFO of handles
  ntodo,            \* handles left to run in the current loop iteration
  ctxState,         \* libpulse context state (pa_context_get_state; "none": no context)
  connected,        \* self._connected   (asyncio.Event flag)
  disconnected,     \* self._disconnected (asyncio.Event flag)
  dwaiters,         \* self._disconnected._waiters: racers whose wait task sleeps
  waiting_futures,  \* self.waiting_futures
  fut,              \* state of each _pulse_op_cb.future
  nativeOp,         \* the libpulse operation behind each future
  invalidState,     \* a set_result/set_exception hit a non-pending future
  pc,               \* position of each task
  outcome,          \* how each task ended
  mustCancel,       \* Task._must_cancel
  cancelSent,       \* task.cancel() has been requested by another task
  startCtx,         \* libpulse context state when the task issued its request
  pendingExc,       \* exception in flight while a finally block awaits
  wdT,              \* _wait_disconnect_or: state of the wait_disconnected task
  otT,              \* _wait_disconnect_or: state of other_task
  waiter,           \* the future asyncio.wait() suspends the caller on
  held,             \* the result other_task finished with (0: none)
  orphan,           \* inner tasks still pending after their race returned
  raceFirst,        \* running race: what came first, f's completion or the signal
  raceResult,       \* how the last _wait_disconnect_or of a task ended
  raceInfo,         \* what the last _wait_disconnect_or saw when it ended
  event_callback,   \* self.event_callback: 0 (None) or the owning stream
  queue,            \* the asyncio.Queue of each stream generator
  got,              \* items each stream has yielded to its consumer
  maskOn,           \* server side: a non-null subscription mask is in force
  maskCalls,        \* context_subscribe calls issued, per stream
  nEmitted,         \* notifications / samples pushed by the server so far
  pkStream,         \* the native sample stream of subscribe_peak_sample
  ctx,              \* self._ctx: the current native context handle (0: None)
  ctxReleased,      \* context_unref calls made on each native context handle
  closes,           \* close() calls made so far
  timed,            \* connect() tasks called with a timeout
  delivered,        \* notifications _pulse_subscribe_cb handed to each stream's slot
  pkNative,         \* the native sample stream: created / stream_disconnect / stream_unref counts
  ctxMade,          \* native context handles created so far (context_new calls)
  connSaw,          \* what each connect() found when it issued context_connect
  qKind,            \* info query: by index, by name, singleton or list ("none": no query)
  qFeed,            \* info query: the callback invocations libpulse makes for it
  qPos,             \* info query: the next invocation of qFeed
  qData,            \* info query: the `data` list of _wrapper_method
  qDone,            \* info query: the request's future has its result
  qResult,          \* info query: what _wrapper_method returned or raised
  peak,             \* get_peak_sample: samples[0]
  amp,              \* amplitude of each buffer the server pushed, by number
  gpResult          \* what get_peak_sample returned (-1: nothing yet)

loopVars == <<ready, ntodo>>
ctxVars == <<ctxState, connected, disconnected, dwaiters>>
futVars == <<waiting_futures, fut, nativeOp, invalidState>>
taskVars == <<pc, outcome, mustCancel, cancelSent, startCtx, pendingExc>>
raceVars == <<wdT, otT, waiter, held, orphan, raceFirst, raceResult, raceInfo>>
streamVars == <<event_callback, queue, got, maskOn, maskCalls, nEmitted, pkStream>>
lifeVars == <<ctx, ctxReleased, closes, timed, delivered, pkNative, ctxMade, connSaw>>
infoVars == <<qKind, qFeed, qPos, qData, qDone, qResult>>
peakVars == <<peak, amp, gpResult>>
extraVars == <<infoVars, peakVars>>
vars == <<loopVars, ctxVars, futVars, taskVars, raceVars, streamVars, lifeVars, extraVars>>

\* ---------------------------------------------------------------- handles
Handle(t, i, a) == [type |-> t, id |-> i, arg |-> a]
IoHandle == Handle("io", 0, "")
NoopHandle == Handle("noop", 0, "")
StepHandle(task) == Handle("step", task[2], task[1])
CancelHandle(task) == Handle("cancel", task[2], task[1])
SettleHandle(f, ok) == Handle("settle", f, IF ok THEN "ok" ELSE "fail")
WdStepHandle(r) == Handle("wd_step", r[2], r[1])
OtStepHandle(r) == Handle("ot_step", r[2], r[1])
WdDoneHandle(r) == Handle("wd_done", r[2], r[1])
OtDoneHandle(r) == Handle("ot_done", r[2], r[1])
OldStepHandle(r) == Handle("old_step", r[2], r[1])
AcloseHandle(r) == Handle("aclose", r[2], r[1])
TimeoutHandle(r) == Handle("timeout", r[2], r[1])
ReleaseHandle(g) == Handle("release", g[2], g[1])

InReady(h) == \E k \in DOMAIN ready : ready[k] = h
CountReady(h) == Cardinality({k \in DOMAIN ready : ready[k] = h})
Running(h) == ntodo > 0 /\ ready # <<>> /\ Head(ready) = h

\* The running handle returns; q is the ready list as the handle left it
\* (without what it appended) and new are the handles it scheduled (call_soon).
RanOn(q, new) ==
  /\ ready' = Tail(q) \o new
  /\ ntodo' = ntodo - 1

Ran(new) == RanOn(ready, new)

\* The running handle stays at the head; new are the handles it scheduled.
Sched(new) ==
  /\ ready' = ready \o new
  /\ ntodo' = ntodo

\* All orders in which a Python set can be iterated.
SeqsOf(S) == {s \in [1..Cardinality(S) -> S] : \A a, b \in DOMAIN s : a # b => s[a] # s[b]}


\* ---------------------------------------------------------------- Init
\* asyncio.Event.set() and .clear(), as functions of the flag before.
EventSet(flag) == TRUE
EventKept(flag) == flag
EventClear(flag) == FALSE

\* The events as construction leaves them: asyncio.Event() starts clear;
\* __init__ sets _disconnected (line 82) and then calls init(), whose
\* _ctx_init clears both events (lines 111-112).
ConstructedConnected == EventClear(FALSE)
ConstructedDisconnected == EventClear(EventSet(FALSE))

\* PulseAsync.__init__ / init / _ctx_init: a fresh context, no callback slot,
\* no futures; no task of the program has been created yet.  (Init adds that
\* no info query and no get_peak_sample is under way.)
InitProgram ==
  /\ ready = <<>>
  /\ ntodo = 0
  /\ ctxState = "unconnected"
  /\ connected = ConstructedConnected
  /\ disconnected = ConstructedDisconnected
  /\ dwaiters = <<>>
  /\ waiting_futures = {}
  /\ fut = [f \in FutIds |-> "none"]
  /\ nativeOp = [f \in FutIds |-> "none"]
  /\ invalidState = FALSE
  /\ pc = [t \in Tasks |-> "idle"]
  /\ outcome = [t \in Tasks |-> "none"]
  /\ mustCancel = [t \in Tasks |-> FALSE]
  /\ cancelSent = [t \in Tasks |-> FALSE]
  /\ startCtx = [t \in Tasks |-> "none"]
  /\ pendingExc = [t \in Tasks |-> "none"]
  /\ wdT = [r \in Racers |-> "none"]
  /\ otT = [r \in Racers |-> "none"]
  /\ waiter = [r \in Racers |-> "none"]
  /\ held = [r \in Racers |-> 0]
  /\ orphan = [r \in Racers |-> 0]
  /\ raceResult = [r \in Racers |-> "none"]
  /\ raceFirst = [r \in Racers |-> "none"]
  /\ raceInfo = [r \in Racers |-> [first |-> "none", wd |-> "none", ot |-> "none"]]
  /\ event_callback = 0
  /\ queue = [r \in Racers |-> <<>>]
  /\ got = [r \in Racers |-> <<>>]
  /\ maskOn = FALSE
  /\ maskCalls = [s \in Streams |-> 0]
  /\ nEmitted = 0
  /\ pkStream = "none"
  /\ ctx = 1
  /\ ctxReleased = [h \in 0..NumConnects |-> 0]
  /\ closes = 0
  /\ timed = [r \in AllConn |-> "no"]
  /\ ctxMade = 1
  /\ connSaw = [r \in AllConn |-> NoCall]
  /\ delivered = [r \in Racers |-> <<>>]
  /\ pkNative = [created |-> 0, disconnects |-> 0, unrefs |-> 0]

\* _wrapper_method before it has returned or raised.
NoResult == [tag |-> "none", val |-> <<>>]

\* No info query is under way.
NoQuery ==
  /\ qKind = "none"
  /\ qFeed = <<>>
  /\ qPos = 1
  /\ qData = <<>>
  /\ qDone = FALSE
  /\ qResult = NoResult

\* get_peak_sample has not run: no sample has been pushed.
NoPeak ==
  /\ peak = 0
  /\ amp = <<>>
  /\ gpResult = -1

Init == InitProgram /\ NoQuery /\ NoPeak

\* ---------------------------------------------------------------- event loop
\* loop.create_task(coro) by the application: the task's first step is
\* scheduled with call_soon.  The application uses the instance as the
\* examples do: requests and streams are started once connect() has returned
\* or raised.
Spawn(t) ==
  /\ ntodo = 0
  /\ pc[t] = "idle"
  /\ t \in ConnTasks \/ \A c \in ConnTasks : pc[c] = "done"
  /\ closes = 0
  /\ pc' = [pc EXCEPT ![t] = "spawned"]
  /\ ready' = Append(ready, StepHandle(t))
  /\ UNCHANGED <<ntodo, ctxVars, futVars, outcome, mustCancel, cancelSent, startCtx,
                 pendingExc, raceVars, streamVars>>
  /\ UNCHANGED lifeVars
  /\ UNCHANGED extraVars

\* The libpulse socket becomes readable: the mainloop adapter's reader callback
\* is appended to the ready list by the selector.
EnqueueIo ==
  /\ ntodo = 0
  /\ ctxState \in {"connecting", "ready"}
  /\ ~InReady(IoHandle)
  /\ ready' = Append(ready, IoHandle)
  /\ UNCHANGED <<ntodo, ctxVars, futVars, taskVars, raceVars, streamVars>>
  /\ UNCHANGED lifeVars
  /\ UNCHANGED extraVars

\* Another part of the application arranges task.cancel() (the examples use
\* loop.call_later(5, listen_task.cancel) and signal handlers).
EnqueueCancel(t) ==
  /\ ntodo = 0
  /\ pc[t] \notin {"idle", "done", "broken", "closing"}
  /\ pendingExc[t] # "closed"
  /\ ~cancelSent[t]
  /\ Cardinality({x \in Tasks : cancelSent[x]}) < MaxCancels
  /\ cancelSent' = [cancelSent EXCEPT ![t] = TRUE]
  /\ ready' = Append(ready, CancelHandle(t))
  /\ UNCHANGED <<ntodo, ctxVars, futVars, pc, outcome, mustCancel, startCtx,
                 pendingExc, raceVars, streamVars>>
  /\ UNCHANGED lifeVars
  /\ UNCHANGED extraVars

\* BaseEventLoop._run_once: everything that is ready now runs in this iteration.
BeginBatch ==
  /\ ntodo = 0
  /\ ready # <<>>
  /\ ntodo' = Len(ready)
  /\ UNCHANGED <<ready, ctxVars, futVars, taskVars, raceVars, streamVars>>
  /\ UNCHANGED lifeVars
  /\ UNCHANGED extraVars

\* A done callback of a finished asyncio.wait(), or another handle that has
\* nothing left to do.
RunNoop ==
  /\ Running(NoopHandle)
  /\ Ran(<<>>)
  /\ UNCHANGED <<ctxVars, futVars, taskVars, raceVars, streamVars>>
  /\ UNCHANGED lifeVars
  /\ UNCHANGED extraVars

\* ---------------------------------------------------------------- futures
\* The future a suspended task awaits directly (0: none, or the waiter of
\* asyncio.wait when the task is inside _wait_disconnect_or).
AwaitedFut(t) ==
  IF t[1] = Kop /\ pc[t] = "awaiting" THEN t[2]
  ELSE IF t[1] = Kev /\ pc[t] = "mask_wait" THEN MaskFut(t[2])
  ELSE IF t[1] = Kev /\ pc[t] = "null_wait" THEN NullFut(t[2])
  ELSE 0

\* Task.cancel(): cancel the future the task waits on if that is still
\* pending (its done callback then schedules the task), else set _must_cancel.
RunCancel(t) ==
  /\ Running(CancelHandle(t))
  /\ LET f == AwaitedFut(t) IN
     IF pc[t] \in {"idle", "done", "broken", "closing"} \/ pendingExc[t] = "closed"
     THEN /\ Ran(<<>>)
          /\ UNCHANGED <<fut, waiter, mustCancel>>
     ELSE IF f # 0 /\ fut[f] = "pending"
     THEN /\ fut' = [fut EXCEPT ![f] = "cancelled"]
          /\ Ran(<<StepHandle(t)>>)
          /\ UNCHANGED <<waiter, mustCancel>>
     ELSE IF pc[t] = "racing" /\ waiter[t] = "pending"
     THEN /\ waiter' = [waiter EXCEPT ![t] = "cancelled"]
          /\ Ran(<<StepHandle(t)>>)
          /\ UNCHANGED <<fut, mustCancel>>
     ELSE /\ mustCancel' = [mustCancel EXCEPT ![t] = TRUE]
          /\ Ran(<<>>)
          /\ UNCHANGED <<fut, waiter>>
  /\ UNCHANGED <<ctxVars, waiting_futures, nativeOp, invalidState, pc, outcome,
                 cancelSent, startCtx, pendingExc, wdT, otT, held, orphan,
                 raceFirst, raceResult, raceInfo, streamVars>>
  /\ UNCHANGED lifeVars
  /\ UNCHANGED extraVars

\* The handle scheduled by cb(): future.set_result(None) on success,
\* future.set_exception(PulseOperationFailed()) on failure.  On a future that
\* is no longer pending both raise InvalidStateError.
RunSettle(f, ok) ==
  /\ Running(SettleHandle(f, ok))
  /\ IF fut[f] = "pending"
     THEN /\ fut' = [fut EXCEPT ![f] = IF ok THEN "result" ELSE "opfailed"]
          /\ Ran(<<StepHandle(AwaiterOf(f))>>)
          /\ UNCHANGED invalidState
     ELSE /\ invalidState' = TRUE
          /\ Ran(<<>>)
          /\ UNCHANGED fut
  /\ UNCHANGED <<ctxVars, waiting_futures, nativeOp, taskVars, raceVars, streamVars>>
  /\ UNCHANGED lifeVars
  /\ UNCHANGED extraVars

\* ---------------------------------------------------------------- state callback
\* Event.set() on _disconnected: every sleeping waiter future gets its result,
\* which schedules the wait_disconnected task that awaits it.
WokenWd == [r \in Racers |-> IF wdT[r] = "waiting" THEN "woken" ELSE wdT[r]]
WakeHandles == [k \in DOMAIN dwaiters |-> WdStepHandle(dwaiters[k])]

\* Bookkeeping for the races in progress: the signal is set while the
\* awaitable of the race has not completed.
SignalSeen ==
  [r \in Racers |-> IF waiter[r] # "none" /\ raceFirst[r] = "none" THEN "signal" ELSE raceFirst[r]]

\* `for future in self.waiting_futures: future.set_exception(...)` visiting the
\* set in the order ord, the futures being in the states fu: the number of
\* futures rejected before the loop ends, which it does early when
\* set_exception raises InvalidStateError on a future that is already done.
RECURSIVE RejectedUpTo(_, _, _)
RejectedUpTo(fu, ord, k) ==
  IF k > Len(ord) \/ fu[ord[k]] # "pending" THEN k - 1 ELSE RejectedUpTo(fu, ord, k + 1)

Rejected(fu, ord) == {ord[k] : k \in 1..RejectedUpTo(fu, ord, 1)}
RejectHandles(fu, ord) ==
  [k \in 1..RejectedUpTo(fu, ord, 1) |-> StepHandle(AwaiterOf(ord[k]))]
Aborted(fu, ord) == RejectedUpTo(fu, ord, 1) < Len(ord)
FutAfterLost(fu, ord) ==
  [f \in FutIds |-> IF f \in Rejected(fu, ord) THEN "disconnected" ELSE fu[f]]

\* libpulse drops its outstanding operations when the context leaves READY:
\* their completion callbacks never fire.
DroppedOps == [f \in FutIds |-> IF nativeOp[f] = "outstanding" THEN "dropped" ELSE nativeOp[f]]

\* _pulse_state_cb for PA_CONTEXT_FAILED / PA_CONTEXT_TERMINATED.
StateCbLost(ord) ==
  /\ connected' = FALSE
  /\ disconnected' = TRUE
  /\ wdT' = WokenWd
  /\ raceFirst' = SignalSeen
  /\ dwaiters' = <<>>
  /\ fut' = FutAfterLost(fut, ord)
  /\ invalidState' = (invalidState \/ Aborted(fut, ord))
  /\ nativeOp' = DroppedOps
  /\ UNCHANGED waiting_futures

\* The handles that callback scheduled.
LostHandles(ord) == WakeHandles \o RejectHandles(fut, ord)

\* ---------------------------------------------------------------- native dispatch
\* The server connection breaks while libpulse reads the socket.
NativeFail ==
  /\ Running(IoHandle)
  /\ ctxState \in {"connecting", "ready"}
  /\ ctxState' = "failed"
  /\ \E ord \in SeqsOf(waiting_futures) :
       /\ StateCbLost(ord)
       /\ Sched(LostHandles(ord))
  /\ maskOn' = FALSE
  /\ pkStream' = IF pkStream = "connected" THEN "failed" ELSE pkStream
  /\ UNCHANGED <<taskVars, waiter, otT, held, orphan, raceResult, raceInfo,
                 event_callback, queue, got, maskCalls, nEmitted>>
  /\ UNCHANGED lifeVars
  /\ UNCHANGED extraVars

\* The reply to a request arrives: libpulse calls the completion callback cb(s),
\* which posts the settlement with loop.call_soon_threadsafe.
NativeOpComplete(f, ok) ==
  /\ Running(IoHandle)
  /\ ctxState = "ready"
  /\ nativeOp[f] = "outstanding"
  /\ nativeOp' = [nativeOp EXCEPT ![f] = "fired"]
  /\ Sched(<<SettleHandle(f, ok)>>)
  /\ UNCHANGED <<ctxVars, waiting_futures, fut, invalidState, taskVars, raceVars, streamVars>>
  /\ UNCHANGED lifeVars
  /\ UNCHANGED extraVars

\* The reader callback returns.
IoDone ==
  /\ Running(IoHandle)
  /\ Ran(<<>>)
  /\ UNCHANGED <<ctxVars, futVars, taskVars, raceVars, streamVars>>
  /\ UNCHANGED lifeVars
  /\ UNCHANGED extraVars

\* The server accepts the connection: _pulse_state_cb for PA_CONTEXT_READY.
\* Event.set() on _connected wakes the task sleeping in _connected.wait().
NativeReady ==
  /\ Running(IoHandle)
  /\ ctxState = "connecting"
  /\ ctxState' = "ready"
  /\ disconnected' = EventClear(disconnected)
  /\ connected' = EventSet(connected)
  /\ otT' = [r \in Racers |-> IF r \in AllConn /\ otT[r] = "waiting" THEN "woken" ELSE otT[r]]
  /\ LET W == {r \in AllConn : otT[r] = "waiting"} IN
     Sched(IF W = {} THEN <<>> ELSE <<OtStepHandle(CHOOSE r \in W : TRUE)>>)
  /\ UNCHANGED <<dwaiters, futVars, taskVars, wdT, waiter, held, orphan, raceFirst,
                 raceResult, raceInfo, streamVars>>
  /\ UNCHANGED lifeVars
  /\ UNCHANGED extraVars

\* ---------------------------------------------------------------- direct requests
\* The native call of a request raises CallError when the context is not READY
\* (libpulse returns no operation) or the server-independent checks reject it.
NativeCallFails(valid) == ctxState # "ready" \/ ~valid

\* A discard that is skipped when the awaiting caller was cancelled.
DiscardedUnlessCancelled(f, how) ==
  IF how = "cancelled" THEN waiting_futures ELSE waiting_futures \ {f}

\* _pulse_op_cb.__aexit__: `finally: waiting_futures.discard(self.future)`.
Discarded(f, how) == waiting_futures \ {f}

\* What `await self.future` gives the resumed task.
Awaited(t, f) ==
  IF mustCancel[t] \/ fut[f] = "cancelled" THEN "cancelled"
  ELSE IF fut[f] = "result" THEN "ok"
  ELSE IF fut[f] = "opfailed" THEN "failed"
  ELSE "disconnected"

\* One step of the task running a _pulse_method_call wrapper: either the first
\* (enter _pulse_op_cb, issue the native call, then await the future or leave
\* on CallError) or the one that resumes it from `await self.future`.
OpStep(i) ==
  LET t == <<Kop, i>> IN
  /\ Running(StepHandle(t))
  /\ Ran(<<>>)
  /\ IF pc[t] = "spawned" /\ mustCancel[t]
     THEN /\ pc' = [pc EXCEPT ![t] = "done"]
          /\ outcome' = [outcome EXCEPT ![t] = "cancelled"]
          /\ UNCHANGED <<fut, nativeOp, waiting_futures, startCtx>>
     ELSE IF pc[t] = "spawned"
     THEN \E valid \in BOOLEAN :
          /\ fut' = [fut EXCEPT ![i] = "pending"]
          /\ startCtx' = [startCtx EXCEPT ![t] = ctxState]
          /\ IF NativeCallFails(valid)
             THEN /\ pc' = [pc EXCEPT ![t] = "done"]
                  /\ outcome' = [outcome EXCEPT ![t] = "invalid"]
                  /\ waiting_futures' = Discarded(i, "invalid")
                  /\ UNCHANGED nativeOp
             ELSE /\ pc' = [pc EXCEPT ![t] = "awaiting"]
                  /\ waiting_futures' = waiting_futures \cup {i}
                  /\ nativeOp' = [nativeOp EXCEPT ![i] = "outstanding"]
                  /\ UNCHANGED outcome
     ELSE /\ pc[t] = "awaiting"
          /\ pc' = [pc EXCEPT ![t] = "done"]
          /\ outcome' = [outcome EXCEPT ![t] = Awaited(t, i)]
          /\ waiting_futures' = Discarded(i, Awaited(t, i))
          /\ UNCHANGED <<fut, nativeOp, startCtx>>
  /\ UNCHANGED <<ctxVars, invalidState, mustCancel, cancelSent, pendingExc, raceVars, streamVars>>
  /\ UNCHANGED lifeVars
  /\ UNCHANGED extraVars

\* ---------------------------------------------------------------- _wait_disconnect_or
\* The two tasks _wait_disconnect_or creates and the asyncio.wait() on them.
\* Inner task states: "new" (created, first step scheduled), "waiting"
\* (suspended on the Event waiter / Queue getter), "woken" (that future has its
\* result, the wake-up is scheduled), "done".
PendingInner(r) ==
  {w \in {"wd", "ot"} : (IF w = "wd" THEN wdT[r] ELSE otT[r]) \in {"new", "waiting", "woken"}}

\* Variants of the way the race ends: the signal wins whenever its task is
\* done; a cancellation of the caller is not looked at; the test on other_task
\* is turned round.
RaceOutcomeSignalWins(r) ==
  IF mustCancel[r] \/ waiter[r] = "cancelled" THEN "cancelled"
  ELSE IF waiter[r] = "timedout" THEN "timeout"
  ELSE IF wdT[r] = "done" THEN "disconnected"
  ELSE "result"

RaceOutcomeIgnoringCancel(r) ==
  IF waiter[r] = "timedout" THEN "timeout"
  ELSE IF otT[r] # "done" THEN "disconnected" ELSE "result"

RaceOutcomeInverted(r) ==
  IF mustCancel[r] \/ waiter[r] = "cancelled" THEN "cancelled"
  ELSE IF waiter[r] = "timedout" THEN "timeout"
  ELSE IF otT[r] # "done" THEN "result"
  ELSE "disconnected"

\* How `await asyncio.wait(..., FIRST_COMPLETED)` and the code after it end for
\* the resumed caller: CancelledError thrown in at the await (turned into
\* TimeoutError by asyncio.wait_for when its timer caused it), else
\* PulseDisconnected if other_task is among the pending, else its result.
RaceOutcome(r) ==
  IF mustCancel[r] \/ waiter[r] = "cancelled" THEN "cancelled"
  ELSE IF waiter[r] = "timedout" THEN "timeout"
  ELSE IF otT[r] # "done" THEN "disconnected"
  ELSE "result"

\* A race that leaves its pending inner tasks alone.
NoneCancelled(r, how) == {}

\* The inner tasks task.cancel() is called on when the race ends with `how`:
\* `for task in pending` after the wait, both tasks in `except BaseException`
\* (cancel() does nothing to a task that is done).
CancelledInner(r, how) == PendingInner(r)

\* The ready list once the caller has left the race: asyncio.wait removed its
\* done callbacks (those already scheduled find the waiter done and do
\* nothing), and the steps still scheduled for the inner tasks are now steps of
\* tasks of a finished race.
Detach(q, r) ==
  [k \in DOMAIN q |->
     IF q[k].id = r[2] /\ q[k].arg = r[1] /\ q[k].type \in {"wd_step", "ot_step"}
     THEN OldStepHandle(r)
     ELSE IF q[k].id = r[2] /\ q[k].arg = r[1] /\ q[k].type \in {"wd_done", "ot_done"}
     THEN NoopHandle
     ELSE q[k]]

\* task.cancel() on a sleeping inner task cancels the future it waits on,
\* which schedules the task; one whose step is scheduled already gets
\* _must_cancel.  Either way its next step ends it with CancelledError.
CancelHandles(r, C) ==
  (IF "wd" \in C /\ wdT[r] = "waiting" THEN <<OldStepHandle(r)>> ELSE <<>>) \o
  (IF "ot" \in C /\ otT[r] = "waiting" THEN <<OldStepHandle(r)>> ELSE <<>>)

WithoutWaiter(r) == SelectSeq(dwaiters, LAMBDA x : x # r)

\* First step / wake-up of the task running self._disconnected.wait().
WdStep(r) ==
  /\ Running(WdStepHandle(r))
  /\ wdT[r] \in {"new", "woken"}
  /\ IF wdT[r] = "woken" \/ disconnected
     THEN /\ wdT' = [wdT EXCEPT ![r] = "done"]
          /\ Ran(<<WdDoneHandle(r)>>)
          /\ UNCHANGED dwaiters
     ELSE /\ wdT' = [wdT EXCEPT ![r] = "waiting"]
          /\ dwaiters' = Append(dwaiters, r)
          /\ Ran(<<>>)
  /\ UNCHANGED <<ctxState, connected, disconnected, futVars, taskVars, otT, waiter,
                 held, orphan, raceFirst, raceResult, raceInfo, streamVars>>
  /\ UNCHANGED lifeVars
  /\ UNCHANGED extraVars

\* Whether the awaitable of racer r can complete now: _connected.wait() for
\* connect(), queue.get() (`while self.empty(): await getter`) for the streams.
CanComplete(r) == IF r[1] = Kconn THEN connected \/ otT[r] = "woken" ELSE queue[r] # <<>>

\* First step / wake-up of other_task.
OtStep(r) ==
  /\ Running(OtStepHandle(r))
  /\ otT[r] \in {"new", "woken"}
  /\ IF CanComplete(r)
     THEN /\ otT' = [otT EXCEPT ![r] = "done"]
          /\ held' = [held EXCEPT ![r] = IF r[1] = Kconn THEN 0 ELSE Head(queue[r])]
          /\ queue' = [queue EXCEPT ![r] = IF r[1] = Kconn THEN @ ELSE Tail(@)]
          /\ raceFirst' = [raceFirst EXCEPT ![r] = IF @ = "none" THEN "f" ELSE @]
          /\ Ran(<<OtDoneHandle(r)>>)
     ELSE /\ otT' = [otT EXCEPT ![r] = "waiting"]
          /\ Ran(<<>>)
          /\ UNCHANGED <<held, queue, raceFirst>>
  /\ UNCHANGED <<ctxVars, futVars, taskVars, wdT, waiter, orphan, raceResult, raceInfo,
                 event_callback, got, maskOn, maskCalls, nEmitted, pkStream>>
  /\ UNCHANGED lifeVars
  /\ UNCHANGED extraVars

\* asyncio.wait's _on_completion for FIRST_COMPLETED: release the caller.
OnComp(r, h) ==
  /\ Running(h)
  /\ IF waiter[r] = "pending"
     THEN /\ waiter' = [waiter EXCEPT ![r] = "set"]
          /\ Ran(<<StepHandle(r)>>)
     ELSE /\ Ran(<<>>)
          /\ UNCHANGED waiter
  /\ UNCHANGED <<ctxVars, futVars, taskVars, wdT, otT, held, orphan, raceFirst,
                 raceResult, raceInfo, streamVars>>
  /\ UNCHANGED lifeVars
  /\ UNCHANGED extraVars

WdDone(r) == OnComp(r, WdDoneHandle(r))
OtDone(r) == OnComp(r, OtDoneHandle(r))

\* The step of an inner task that was cancelled when its race ended:
\* CancelledError is thrown into it and the task finishes.
OldStep(r) ==
  /\ Running(OldStepHandle(r))
  /\ orphan' = [orphan EXCEPT ![r] = @ - 1]
  /\ Ran(<<>>)
  /\ UNCHANGED <<ctxVars, futVars, taskVars, wdT, otT, waiter, held, raceFirst,
                 raceResult, raceInfo, streamVars>>
  /\ UNCHANGED lifeVars
  /\ UNCHANGED extraVars

\* Bookkeeping: the signal is set already when a race begins, the queue the
\* race will read being empty ("preset") or not ("preset_q").
SetBefore(r) == IF queue[r] = <<>> THEN "preset" ELSE "preset_q"

\* The caller enters _wait_disconnect_or: two tasks are created (their first
\* steps scheduled) and the caller suspends on asyncio.wait's waiter.
RaceBegins(r) ==
  /\ wdT' = [wdT EXCEPT ![r] = "new"]
  /\ otT' = [otT EXCEPT ![r] = "new"]
  /\ waiter' = [waiter EXCEPT ![r] = "pending"]
  /\ held' = [held EXCEPT ![r] = 0]
  /\ raceFirst' = [raceFirst EXCEPT ![r] = IF disconnected THEN SetBefore(r) ELSE "none"]

NewRaceHandles(r) == <<WdStepHandle(r), OtStepHandle(r)>>

\* The resumed caller leaves _wait_disconnect_or (lines 175-184); with `again`
\* it enters the next one in the same step (the `while True` of a stream).
RaceEnds(r, again) ==
  /\ raceResult' = [raceResult EXCEPT ![r] = RaceOutcome(r)]
  /\ raceInfo' = [raceInfo EXCEPT ![r] = [first |-> raceFirst[r], wd |-> wdT[r], ot |-> otT[r]]]
  /\ orphan' = [orphan EXCEPT ![r] = @ + Cardinality(PendingInner(r))]
  /\ wdT' = [wdT EXCEPT ![r] = IF again THEN "new" ELSE "none"]
  /\ otT' = [otT EXCEPT ![r] = IF again THEN "new" ELSE "none"]
  /\ waiter' = [waiter EXCEPT ![r] = IF again THEN "pending" ELSE "none"]
  /\ held' = [held EXCEPT ![r] = 0]
  /\ raceFirst' = [raceFirst EXCEPT ![r] = IF again /\ disconnected THEN SetBefore(r) ELSE "none"]

EndRaceHandles(r, again) ==
  CancelHandles(r, CancelledInner(r, RaceOutcome(r))) \o
  (IF again THEN NewRaceHandles(r) ELSE <<>>)

\* ---------------------------------------------------------------- connect()
\* A connect() that reinitialises only an instance that is connected.
ReinitIfConnected == connected

\* connect(), line 121: `if self._connected.is_set() or self._disconnected.is_set()`.
NeedsReinit == connected \/ disconnected

\* A disconnect() that never reaches the native call.
DisconnectNever == FALSE

\* disconnect(), line 147: the native context_disconnect is reached unless
\* there is no handle or _disconnected is set.
DisconnectCalls == ctx # 0 /\ ~disconnected

\* A context on which context_disconnect never has an effect.
CtxNeverGood == FALSE

\* PA_CONTEXT_IS_GOOD: context_disconnect moves such a context to TERMINATED,
\* which runs the state callback inside the call; on any other it does nothing.
CtxGood == ctxState \in {"connecting", "ready"}

\* A release that does not reach the native library.
NoUnref(h) == ctxReleased

\* c.pa.context_unref(h).
Unref(h) == [ctxReleased EXCEPT ![h] = @ + 1]

\* An error path of connect() that leaves _disconnected as it found it.
LeftAsItWas(was) == was

\* connect(), line 135: `self._disconnected.set()` before raising PulseError.
MarkedDisconnected(was) == TRUE

\* A close() that never finds the instance closed.
NeverClosed == FALSE

\* close(), line 152: `if not self._loop: return` (_loop and _ctx are set to
\* None together).
Closed == ctx = 0

\* The handles Event.set() on _disconnected schedules for the sleeping
\* wait_disconnected tasks other than that of r, whose race is over.
WakeOthers(r) == [k \in DOMAIN WithoutWaiter(r) |-> WdStepHandle(WithoutWaiter(r)[k])]

\* One step of the task awaiting connect(): the first runs _ctx_init when an
\* event is set, issues context_connect (res: accepted, refused with the
\* context failing at once, or rejected without a state change; libpulse
\* rejects the call on a context that is not UNCONNECTED) and enters the race
\* on _connected.wait(), under asyncio.wait_for if a timeout was given; the
\* second resumes it from that await.
ConnStep(r) ==
  /\ Running(StepHandle(r))
  /\ r \in AllConn
  /\ IF pc[r] = "spawned" /\ mustCancel[r]
     THEN /\ pc' = [pc EXCEPT ![r] = "done"]
          /\ outcome' = [outcome EXCEPT ![r] = "cancelled"]
          /\ Ran(<<>>)
          /\ UNCHANGED <<ctxVars, futVars, raceVars, maskOn, pkStream,
                         ctx, ctxReleased, ctxMade, connSaw>>
     ELSE IF pc[r] = "spawned"
     THEN \E res \in {"ok", "refused", "invalid"} :
          \E ord1 \in SeqsOf(waiting_futures) : \E ord2 \in SeqsOf(waiting_futures) :
          LET reinit == NeedsReinit
              lost == reinit /\ DisconnectCalls /\ CtxGood
              state0 == IF reinit THEN "unconnected" ELSE ctxState
              fut1 == IF lost THEN FutAfterLost(fut, ord1) ELSE fut
              wakes == lost \/ res # "ok"
              hs == (IF wakes THEN WakeHandles ELSE <<>>) \o
                    (IF lost THEN RejectHandles(fut, ord1) ELSE <<>>) \o
                    (IF res = "refused" THEN RejectHandles(fut1, ord2) ELSE <<>>)
          IN
          /\ state0 = "unconnected" \/ res = "invalid"
          /\ ctx' = IF reinit THEN ctxMade + 1 ELSE ctx
          /\ ctxMade' = IF reinit THEN ctxMade + 1 ELSE ctxMade
          /\ ctxReleased' = IF reinit THEN Unref(ctx) ELSE ctxReleased
          /\ connSaw' = [connSaw EXCEPT ![r] =
                           [handle |-> ctx', state |-> state0,
                            connected |-> connected /\ ~reinit,
                            disconnected |-> disconnected /\ ~reinit]]
          /\ fut' = IF res = "refused" THEN FutAfterLost(fut1, ord2) ELSE fut1
          /\ invalidState' = (invalidState \/ (lost /\ Aborted(fut, ord1))
                                \/ (res = "refused" /\ Aborted(fut1, ord2)))
          /\ nativeOp' = IF lost THEN DroppedOps ELSE nativeOp
          /\ maskOn' = IF lost THEN FALSE ELSE maskOn
          /\ pkStream' = IF lost /\ pkStream = "connected" THEN "failed" ELSE pkStream
          /\ dwaiters' = IF wakes THEN <<>> ELSE dwaiters
          /\ connected' = (connected /\ ~reinit)
          /\ UNCHANGED waiting_futures
          /\ IF res = "ok"
             THEN /\ ctxState' = "connecting"
                  /\ disconnected' = (disconnected /\ ~reinit)
                  /\ pc' = [pc EXCEPT ![r] = "racing"]
                  /\ wdT' = [(IF wakes THEN WokenWd ELSE wdT) EXCEPT ![r] = "new"]
                  /\ otT' = [otT EXCEPT ![r] = "new"]
                  /\ waiter' = [waiter EXCEPT ![r] = "pending"]
                  /\ held' = [held EXCEPT ![r] = 0]
                  /\ raceFirst' = [(IF wakes THEN SignalSeen ELSE raceFirst) EXCEPT ![r] = "none"]
                  /\ Ran(hs \o NewRaceHandles(r))
                  /\ UNCHANGED <<outcome, orphan, raceResult, raceInfo>>
             ELSE /\ ctxState' = IF res = "refused" THEN "failed" ELSE state0
                  /\ disconnected' = (res = "refused" \/ MarkedDisconnected(disconnected /\ ~reinit))
                  /\ pc' = [pc EXCEPT ![r] = "done"]
                  /\ outcome' = [outcome EXCEPT ![r] = "pulse_error"]
                  /\ wdT' = IF wakes THEN WokenWd ELSE wdT
                  /\ raceFirst' = IF wakes THEN SignalSeen ELSE raceFirst
                  /\ Ran(hs)
                  /\ UNCHANGED <<otT, waiter, held, orphan, raceResult, raceInfo>>
     ELSE IF pc[r] = "racing" /\ RaceOutcome(r) = "timeout"
     THEN \E ord \in SeqsOf(waiting_futures) :
          LET fires == DisconnectCalls /\ CtxGood IN
          /\ raceResult' = [raceResult EXCEPT ![r] = "timeout"]
          /\ raceInfo' = [raceInfo EXCEPT ![r] = [first |-> raceFirst[r], wd |-> wdT[r], ot |-> otT[r]]]
          /\ orphan' = [orphan EXCEPT ![r] = @ + Cardinality(PendingInner(r))]
          /\ otT' = [otT EXCEPT ![r] = "none"]
          /\ waiter' = [waiter EXCEPT ![r] = "none"]
          /\ held' = [held EXCEPT ![r] = 0]
          /\ wdT' = [(IF fires THEN WokenWd ELSE wdT) EXCEPT ![r] = "none"]
          /\ raceFirst' = [(IF fires THEN SignalSeen ELSE raceFirst) EXCEPT ![r] = "none"]
          /\ dwaiters' = IF fires THEN <<>> ELSE WithoutWaiter(r)
          /\ ctxState' = IF fires THEN "terminated" ELSE ctxState
          /\ connected' = (connected /\ ~fires)
          /\ disconnected' = (disconnected \/ fires)
          /\ fut' = IF fires THEN FutAfterLost(fut, ord) ELSE fut
          /\ invalidState' = (invalidState \/ (fires /\ Aborted(fut, ord)))
          /\ nativeOp' = IF fires THEN DroppedOps ELSE nativeOp
          /\ maskOn' = (maskOn /\ ~fires)
          /\ pkStream' = IF fires /\ pkStream = "connected" THEN "failed" ELSE pkStream
          /\ UNCHANGED waiting_futures
          /\ IF disconnected'
             THEN /\ pc' = [pc EXCEPT ![r] = "done"]
                  /\ outcome' = [outcome EXCEPT ![r] = "timeout"]
             ELSE /\ pc' = [pc EXCEPT ![r] = "disc_wait"]
                  /\ UNCHANGED outcome
          /\ RanOn(Detach(ready, r),
                   EndRaceHandles(r, FALSE) \o
                   (IF fires THEN WakeOthers(r) \o RejectHandles(fut, ord) ELSE <<>>))
          /\ UNCHANGED <<ctx, ctxReleased, ctxMade, connSaw>>
     ELSE /\ pc[r] = "racing"
          /\ pc' = [pc EXCEPT ![r] = "done"]
          /\ outcome' = [outcome EXCEPT ![r] =
                           IF RaceOutcome(r) = "result" THEN "ok"
                           ELSE IF RaceOutcome(r) = "cancelled" THEN "cancelled"
                           ELSE "pulse_error"]
          /\ RaceEnds(r, FALSE)
          /\ disconnected' = IF RaceOutcome(r) = "disconnected"
                             THEN MarkedDisconnected(disconnected) ELSE disconnected
          /\ dwaiters' = WithoutWaiter(r)
          /\ RanOn(Detach(ready, r), EndRaceHandles(r, FALSE))
          /\ UNCHANGED <<ctxState, connected, futVars, maskOn, pkStream,
                         ctx, ctxReleased, ctxMade, connSaw>>
  /\ UNCHANGED <<mustCancel, cancelSent, startCtx, pendingExc, event_callback, queue,
                 got, maskCalls, nEmitted, closes, timed, delivered, pkNative>>
  /\ UNCHANGED extraVars

\* The application calls connect() again, or with a timeout: the task's first
\* step is scheduled.  One connect() runs at a time, each after the one before
\* has returned or raised.
SpawnConnect(t, withTimeout) ==
  /\ ntodo = 0
  /\ t \in AllConn
  /\ pc[t] = "idle"
  /\ closes = 0
  /\ \A c \in AllConn : (c[2] < t[2] => pc[c] = "done") /\ (c[2] > t[2] => pc[c] = "idle")
  /\ pc' = [pc EXCEPT ![t] = "spawned"]
  /\ timed' = [timed EXCEPT ![t] = IF withTimeout THEN "armed" ELSE "no"]
  /\ ready' = Append(ready, StepHandle(t))
  /\ UNCHANGED <<ntodo, ctxVars, futVars, outcome, mustCancel, cancelSent, startCtx,
                 pendingExc, raceVars, streamVars, ctx, ctxReleased, closes, delivered,
                 pkNative, ctxMade, connSaw>>
  /\ UNCHANGED extraVars

\* The timer of asyncio.wait_for(..., timeout) expires.
EnqueueTimeout(r) ==
  /\ ntodo = 0
  /\ timed[r] = "armed"
  /\ pc[r] = "racing"
  /\ timed' = [timed EXCEPT ![r] = "fired"]
  /\ ready' = Append(ready, TimeoutHandle(r))
  /\ UNCHANGED <<ntodo, ctxVars, futVars, taskVars, raceVars, streamVars, ctx, ctxReleased,
                 closes, delivered, pkNative, ctxMade, connSaw>>
  /\ UNCHANGED extraVars

\* wait_for's timer callback: the awaited race is cancelled unless it has
\* completed already, and the caller is resumed with TimeoutError.
RunTimeout(r) ==
  /\ Running(TimeoutHandle(r))
  /\ IF pc[r] = "racing" /\ waiter[r] = "pending"
     THEN /\ waiter' = [waiter EXCEPT ![r] = "timedout"]
          /\ Ran(<<StepHandle(r)>>)
     ELSE /\ Ran(<<>>)
          /\ UNCHANGED waiter
  /\ UNCHANGED <<ctxVars, futVars, taskVars, wdT, otT, held, orphan, raceFirst,
                 raceResult, raceInfo, streamVars, lifeVars>>
  /\ UNCHANGED extraVars

\* The application calls disconnect().
Disconnect ==
  /\ ntodo = 0
  /\ \A t \in Tasks : pc[t] # "spawned"
  /\ DisconnectCalls /\ CtxGood
  /\ \E ord \in SeqsOf(waiting_futures) :
       /\ ctxState' = "terminated"
       /\ StateCbLost(ord)
       /\ ready' = ready \o LostHandles(ord)
  /\ maskOn' = FALSE
  /\ pkStream' = IF pkStream = "connected" THEN "failed" ELSE pkStream
  /\ UNCHANGED <<ntodo, taskVars, otT, waiter, held, orphan, raceResult, raceInfo,
                 event_callback, queue, got, maskCalls, nEmitted, lifeVars>>
  /\ UNCHANGED extraVars

\* close(), called by the application or by __aexit__ when an
\* `async with PulseAsync(...)` block is left: disconnect(), context_unref,
\* then _ctx = _loop = None.  A context_disconnect on a good context runs the
\* state callback for TERMINATED inside the call; the unref drops the only
\* reference, so the native context is freed and calls back no more.
Close ==
  /\ ntodo = 0
  /\ closes < MaxCloses
  /\ \A c \in ConnTasks : pc[c] = "done"
  /\ \A t \in Tasks : pc[t] # "spawned"
  /\ \A c \in AllConn : pc[c] \in {"idle", "done"}
  /\ closes' = closes + 1
  /\ IF Closed
     THEN UNCHANGED <<ready, ctxVars, futVars, wdT, raceFirst, maskOn, pkStream, ctx, ctxReleased>>
     ELSE /\ ctxReleased' = Unref(ctx)
          /\ ctx' = 0
          /\ ctxState' = "none"
          /\ IF DisconnectCalls /\ CtxGood
             THEN \E ord \in SeqsOf(waiting_futures) :
                    /\ StateCbLost(ord)
                    /\ ready' = ready \o LostHandles(ord)
                    /\ maskOn' = FALSE
                    /\ pkStream' = IF pkStream = "connected" THEN "failed" ELSE pkStream
             ELSE UNCHANGED <<ready, connected, disconnected, dwaiters, futVars, wdT,
                              raceFirst, maskOn, pkStream>>
  /\ UNCHANGED <<ntodo, taskVars, otT, waiter, held, orphan, raceResult, raceInfo,
                 event_callback, queue, got, maskCalls, nEmitted, timed, delivered,
                 pkNative, ctxMade, connSaw>>
  /\ UNCHANGED extraVars

\* ---------------------------------------------------------------- streams
\* A put that stores the item ahead of the ones already queued.
PutNowaitFront(r, item) ==
  /\ queue' = [queue EXCEPT ![r] = <<item>> \o @]
  /\ otT' = [otT EXCEPT ![r] = IF @ = "waiting" THEN "woken" ELSE @]
  /\ Sched(IF otT[r] = "waiting" THEN <<OtStepHandle(r)>> ELSE <<>>)

\* asyncio.Queue.put_nowait(item): store the item and wake the sleeping getter.
PutNowait(r, item) ==
  /\ queue' = [queue EXCEPT ![r] = Append(@, item)]
  /\ otT' = [otT EXCEPT ![r] = IF @ = "waiting" THEN "woken" ELSE @]
  /\ Sched(IF otT[r] = "waiting" THEN <<OtStepHandle(r)>> ELSE <<>>)

\* The server pushes a notification: _pulse_subscribe_cb hands it to
\* event_callback (the put_nowait of the active stream's queue), if any.
NativeEvent ==
  /\ Running(IoHandle)
  /\ ctxState = "ready"
  /\ maskOn
  /\ nEmitted < MaxEvents
  /\ nEmitted' = nEmitted + 1
  /\ IF event_callback = 0
     THEN /\ Sched(<<>>)
          /\ UNCHANGED <<queue, otT>>
     ELSE PutNowait(<<Kev, event_callback>>, nEmitted + 1)
  /\ delivered' = IF event_callback = 0 THEN delivered
                   ELSE [delivered EXCEPT ![<<Kev, event_callback>>] = Append(@, nEmitted + 1)]
  /\ UNCHANGED <<ctxVars, futVars, taskVars, wdT, waiter, held, orphan, raceFirst,
                 raceResult, raceInfo, event_callback, got, maskOn, maskCalls, pkStream>>
  /\ UNCHANGED <<ctx, ctxReleased, closes, timed, pkNative, ctxMade, connSaw>>
  /\ UNCHANGED extraVars

\* Bytes of one PA_SAMPLE_FLOAT32NE sample: `bs.value < 4` in read_cb.
SampleWidth == 4

\* Amplitudes in hundredths: the 1.0 of `min(1.0, samples[0])`, and the first
\* float of a buffer, which may lie above it.
FullScale == 100
Levels == {0 - FullScale \div 2, FullScale \div 2, FullScale + FullScale \div 2}

\* What stream_peek can hand to read_cb: a buffer, a hole (no data, nbytes the
\* length of the hole) or nothing at all (no data, nbytes 0).
PeekBufs ==
  {b \in [null : BOOLEAN, nbytes : {0, SampleWidth - 1, SampleWidth, 2 * SampleWidth},
          level : Levels] :
     ~b.null => b.nbytes > 0}

\* The buffers of a stream whose amplitude does not matter.
PlainBufs == {b \in PeekBufs : b.level = FullScale \div 2}

\* A read_cb that enqueues whatever it is handed.
ReadAlwaysEnqueues(buf) == TRUE

\* read_cb, line 592: `if not buff or bs.value < 4: return`.
ReadEnqueues(buf) == ~(buf.null \/ buf.nbytes < SampleWidth)

\* The sample stream has data: read_cb peeks it and enqueues one sample unless
\* the buffer is a hole or shorter than one float.
NativeRead(buf) ==
  /\ Running(IoHandle)
  /\ ctxState = "ready"
  /\ pkStream = "connected"
  /\ nEmitted < MaxEvents
  /\ nEmitted' = nEmitted + 1
  /\ amp' = Append(amp, buf.level)
  /\ IF ReadEnqueues(buf)
     THEN PutNowait(<<Kpk, 1>>, nEmitted + 1)
     ELSE /\ Sched(<<>>)
          /\ UNCHANGED <<queue, otT>>
  /\ UNCHANGED <<ctxVars, futVars, taskVars, wdT, waiter, held, orphan, raceFirst,
                 raceResult, raceInfo, event_callback, got, maskOn, maskCalls, pkStream>>
  /\ UNCHANGED lifeVars
  /\ UNCHANGED <<infoVars, peak, gpResult>>

\* A slot check that never finds the slot taken.
SlotNeverTaken == FALSE

\* subscribe_events, line 507: the slot is taken.
SlotTaken == event_callback # 0

\* A reset of the subscription mask that is issued whatever the connection's state.
ResetAlways == TRUE

\* subscribe_events, line 517: `if self._connected.is_set()`.
ResetNeeded == connected

\* The `finally` of subscribe_events after the exception exc: clear the slot
\* and, if still connected, issue _event_mask_set('null') and await it.
EvFinally(r, exc, q, hs) ==
  LET f == NullFut(r[2]) IN
  /\ event_callback' = 0
  /\ IF ResetNeeded
     THEN /\ fut' = [fut EXCEPT ![f] = "pending"]
          /\ nativeOp' = [nativeOp EXCEPT ![f] = "outstanding"]
          /\ waiting_futures' = (waiting_futures \ {MaskFut(r[2])}) \cup {f}
          /\ maskOn' = FALSE
          /\ maskCalls' = [maskCalls EXCEPT ![r[2]] = @ + 1]
          /\ pc' = [pc EXCEPT ![r] = "null_wait"]
          /\ pendingExc' = [pendingExc EXCEPT ![r] = exc]
          /\ UNCHANGED outcome
     ELSE /\ pc' = [pc EXCEPT ![r] = "done"]
          /\ outcome' = [outcome EXCEPT ![r] = exc]
          /\ waiting_futures' = waiting_futures \ {MaskFut(r[2])}
          /\ UNCHANGED <<fut, nativeOp, maskOn, maskCalls, pendingExc>>
  /\ RanOn(q, hs)

\* The consumer has left its `async for` with `break`: the generator, still
\* suspended at its `yield`, is dropped, and the loop's finalizer hook for
\* asynchronous generators posts create_task(agen.aclose()).  This handle
\* creates that task, whose first step is then scheduled.
RunAclose(r) ==
  /\ Running(AcloseHandle(r))
  /\ pc' = [pc EXCEPT ![r] = "closing"]
  /\ Ran(<<StepHandle(r)>>)
  /\ UNCHANGED <<ctxVars, futVars, outcome, mustCancel, cancelSent, startCtx, pendingExc,
                 raceVars, streamVars, lifeVars>>
  /\ UNCHANGED extraVars

\* One step of a task iterating subscribe_events(): the first runs the
\* generator up to its first await (slot check, queue, _event_mask_set), the
\* later ones resume it from the await it is suspended in.  The consumer's
\* loop body does not await, so a yielded item is followed in the same step by
\* the next request or by a `break`; after a `break` the generator is resumed
\* by the aclose() task, which throws GeneratorExit in at the `yield`.
EvStep(r) ==
  LET s == r[2] IN
  /\ Running(StepHandle(r))
  /\ r \in EvTasks
  /\ mustCancel' = [mustCancel EXCEPT ![r] = FALSE]
  /\ IF pc[r] = "spawned" /\ mustCancel[r]
     THEN /\ pc' = [pc EXCEPT ![r] = "done"]
          /\ outcome' = [outcome EXCEPT ![r] = "cancelled"]
          /\ Ran(<<>>)
          /\ UNCHANGED <<futVars, dwaiters, startCtx, pendingExc, raceVars, streamVars>>
     ELSE IF pc[r] = "spawned" /\ SlotTaken
     THEN /\ pc' = [pc EXCEPT ![r] = "done"]
          /\ outcome' = [outcome EXCEPT ![r] = "runtime_error"]
          /\ Ran(<<>>)
          /\ UNCHANGED <<futVars, dwaiters, startCtx, pendingExc, raceVars, streamVars>>
     ELSE IF pc[r] = "spawned"
     THEN /\ startCtx' = [startCtx EXCEPT ![r] = ctxState]
          /\ fut' = [fut EXCEPT ![MaskFut(s)] = "pending"]
          /\ queue' = [queue EXCEPT ![r] = <<>>]
          /\ Ran(<<>>)
          /\ IF NativeCallFails(TRUE)
             THEN /\ pc' = [pc EXCEPT ![r] = "done"]
                  /\ outcome' = [outcome EXCEPT ![r] = "callerror"]
                  /\ event_callback' = 0
                  /\ UNCHANGED <<waiting_futures, nativeOp, maskOn, maskCalls>>
             ELSE /\ pc' = [pc EXCEPT ![r] = "mask_wait"]
                  /\ event_callback' = s
                  /\ waiting_futures' = waiting_futures \cup {MaskFut(s)}
                  /\ nativeOp' = [nativeOp EXCEPT ![MaskFut(s)] = "outstanding"]
                  /\ maskOn' = TRUE
                  /\ maskCalls' = [maskCalls EXCEPT ![s] = @ + 1]
                  /\ UNCHANGED outcome
          /\ UNCHANGED <<invalidState, dwaiters, pendingExc, raceVars, got, nEmitted, pkStream>>
     ELSE IF pc[r] = "mask_wait" /\ Awaited(r, MaskFut(s)) = "ok"
     THEN /\ pc' = [pc EXCEPT ![r] = "racing"]
          /\ waiting_futures' = Discarded(MaskFut(s), "ok")
          /\ RaceBegins(r)
          /\ Ran(NewRaceHandles(r))
          /\ UNCHANGED <<fut, nativeOp, invalidState, dwaiters, outcome, startCtx, pendingExc,
                         orphan, raceResult, raceInfo, streamVars>>
     ELSE IF pc[r] = "mask_wait"
     THEN /\ EvFinally(r, Awaited(r, MaskFut(s)), ready, <<>>)
          /\ UNCHANGED <<invalidState, dwaiters, startCtx, raceVars, queue, got, nEmitted, pkStream>>
     ELSE IF pc[r] = "racing" /\ RaceOutcome(r) = "result"
     THEN \E brk \in BOOLEAN :
          /\ got' = [got EXCEPT ![r] = Append(@, held[r])]
          /\ RaceEnds(r, ~brk)
          /\ dwaiters' = WithoutWaiter(r)
          /\ pc' = [pc EXCEPT ![r] = IF brk THEN "broken" ELSE @]
          /\ RanOn(Detach(ready, r),
                   EndRaceHandles(r, ~brk) \o (IF brk THEN <<AcloseHandle(r)>> ELSE <<>>))
          /\ UNCHANGED <<futVars, outcome, startCtx, pendingExc, event_callback, queue,
                         maskOn, maskCalls, nEmitted, pkStream>>
     ELSE IF pc[r] = "racing"
     THEN /\ RaceEnds(r, FALSE)
          /\ dwaiters' = WithoutWaiter(r)
          /\ EvFinally(r, RaceOutcome(r), Detach(ready, r), EndRaceHandles(r, FALSE))
          /\ UNCHANGED <<invalidState, startCtx, queue, got, nEmitted, pkStream>>
     ELSE IF pc[r] = "closing"
     THEN /\ EvFinally(r, "closed", ready, <<>>)
          /\ UNCHANGED <<invalidState, dwaiters, startCtx, raceVars, queue, got, nEmitted, pkStream>>
     ELSE /\ pc[r] = "null_wait"
          /\ pc' = [pc EXCEPT ![r] = "done"]
          /\ outcome' = [outcome EXCEPT ![r] =
                           IF Awaited(r, NullFut(s)) = "ok" THEN pendingExc[r]
                           ELSE Awaited(r, NullFut(s))]
          /\ waiting_futures' = Discarded(NullFut(s), Awaited(r, NullFut(s)))
          /\ Ran(<<>>)
          /\ UNCHANGED <<fut, nativeOp, invalidState, dwaiters, startCtx, pendingExc,
                         raceVars, streamVars>>
  /\ UNCHANGED <<ctxState, connected, disconnected, cancelSent>>
  /\ UNCHANGED lifeVars
  /\ UNCHANGED extraVars

\* get_peak_sample is running: the task iterating the stream is its
\* subscriber(), whose loop body is `samples[0] = max(samples[0], volume)`.
Subscribed == \E g \in GpTasks : pc[g] # "idle"

Larger(a, b) == IF a >= b THEN a ELSE b

\* What the end of the subscriber task schedules: the done callback that
\* asyncio.wait_for put on it (_release_waiter), or, once get_peak_sample
\* awaits the task itself, the step of get_peak_sample.
SubscriberDone ==
  LET g == <<Kgp, 1>> IN
  IF pc[g] \in {"waiting", "woken_timeout"} THEN <<ReleaseHandle(g)>>
  ELSE IF pc[g] = "draining" THEN <<StepHandle(g)>>
  ELSE <<>>

\* stream_new_with_proplist: the native stream exists.
StreamNew == [pkNative EXCEPT !.created = @ + 1]

\* The `finally` of the generator: stream_disconnect, whose CallError on a
\* stream that is no longer connected is swallowed, then stream_unref.
StreamTeardown == [pkNative EXCEPT !.disconnects = @ + 1, !.unrefs = @ + 1]

\* One step of a task iterating subscribe_peak_sample(): the first creates the
\* native stream, runs the setup calls (stream_set_monitor_stream when a
\* stream_idx is given, which raises on an index the call rejects, then
\* stream_connect_record, whose CallError releases the stream) and enters the
\* first race; the later ones resume it from
\* `await self._wait_disconnect_or(queue.get())`, after which the consumer may
\* leave its loop, or run the `finally` on behalf of aclose().
PkStep(r) ==
  /\ Running(StepHandle(r))
  /\ r \in PkTasks
  /\ mustCancel' = [mustCancel EXCEPT ![r] = FALSE]
  /\ IF pc[r] = "spawned" /\ mustCancel[r]
     THEN /\ pc' = [pc EXCEPT ![r] = "done"]
          /\ outcome' = [outcome EXCEPT ![r] = "cancelled"]
          /\ Ran(SubscriberDone)
          /\ UNCHANGED <<dwaiters, startCtx, raceVars, queue, got, pkStream, pkNative>>
     ELSE IF pc[r] = "spawned"
     THEN \E monitorFails \in BOOLEAN :
          /\ startCtx' = [startCtx EXCEPT ![r] = ctxState]
          /\ IF monitorFails
             THEN /\ pc' = [pc EXCEPT ![r] = "done"]
                  /\ outcome' = [outcome EXCEPT ![r] = "callerror"]
                  /\ pkStream' = "unconnected"
                  /\ pkNative' = StreamNew
                  /\ Ran(SubscriberDone)
                  /\ UNCHANGED <<dwaiters, raceVars, queue, got>>
             ELSE IF NativeCallFails(TRUE)
             THEN /\ pc' = [pc EXCEPT ![r] = "done"]
                  /\ outcome' = [outcome EXCEPT ![r] = "callerror"]
                  /\ pkStream' = "released"
                  /\ pkNative' = [StreamNew EXCEPT !.unrefs = @ + 1]
                  /\ Ran(SubscriberDone)
                  /\ UNCHANGED <<dwaiters, raceVars, queue, got>>
             ELSE /\ pc' = [pc EXCEPT ![r] = "racing"]
                  /\ pkStream' = "connected"
                  /\ pkNative' = StreamNew
                  /\ queue' = [queue EXCEPT ![r] = <<>>]
                  /\ RaceBegins(r)
                  /\ Ran(NewRaceHandles(r))
                  /\ UNCHANGED <<dwaiters, outcome, orphan, raceResult, raceInfo, got>>
     ELSE IF pc[r] = "racing" /\ RaceOutcome(r) = "result"
     THEN \E brk \in (IF Subscribed THEN {FALSE} ELSE BOOLEAN) :
          /\ got' = [got EXCEPT ![r] = Append(@, held[r])]
          /\ RaceEnds(r, ~brk)
          /\ dwaiters' = WithoutWaiter(r)
          /\ pc' = [pc EXCEPT ![r] = IF brk THEN "broken" ELSE @]
          /\ RanOn(Detach(ready, r),
                   EndRaceHandles(r, ~brk) \o (IF brk THEN <<AcloseHandle(r)>> ELSE <<>>))
          /\ UNCHANGED <<outcome, startCtx, queue, pkStream, pkNative>>
     ELSE IF pc[r] = "closing"
     THEN /\ pc' = [pc EXCEPT ![r] = "done"]
          /\ outcome' = [outcome EXCEPT ![r] = "closed"]
          /\ pkStream' = "released"
          /\ pkNative' = StreamTeardown
          /\ Ran(SubscriberDone)
          /\ UNCHANGED <<dwaiters, startCtx, raceVars, queue, got>>
     ELSE /\ pc[r] = "racing"
          /\ pc' = [pc EXCEPT ![r] = "done"]
          /\ outcome' = [outcome EXCEPT ![r] = RaceOutcome(r)]
          /\ pkStream' = "released"
          /\ pkNative' = StreamTeardown
          /\ RaceEnds(r, FALSE)
          /\ dwaiters' = WithoutWaiter(r)
          /\ RanOn(Detach(ready, r), EndRaceHandles(r, FALSE) \o SubscriberDone)
          /\ UNCHANGED <<startCtx, queue, got>>
  /\ UNCHANGED <<ctxState, connected, disconnected, futVars, cancelSent, pendingExc,
                 event_callback, maskOn, maskCalls, nEmitted>>
  /\ UNCHANGED <<ctx, ctxReleased, closes, timed, delivered, ctxMade, connSaw>>
  /\ peak' = IF pc[r] = "racing" /\ RaceOutcome(r) = "result" /\ Subscribed
             THEN Larger(peak, amp[held[r]]) ELSE peak
  /\ UNCHANGED <<infoVars, amp, gpResult>>

\* ---------------------------------------------------------------- get_peak_sample
\* A get_peak_sample that returns samples[0] as it is.
Unclamped(x) == x

\* `return min(1.0, samples[0])`.
Clamp(x) == IF x > FullScale THEN FullScale ELSE x

\* One step of the task awaiting get_peak_sample(source, timeout): the first
\* creates the subscriber task and suspends in asyncio.wait_for(task, timeout);
\* resumed by the task's end it re-raises the task's exception; resumed by the
\* timer it cancels the task (unless that has just ended, whose exception it
\* then raises) and awaits it; resumed by the end of the cancelled task it
\* returns the clamped maximum.
GpStep(g) ==
  LET p == <<Kpk, 1>> IN
  /\ Running(StepHandle(g))
  /\ g \in GpTasks
  /\ IF pc[g] = "spawned"
     THEN /\ pc' = [pc EXCEPT ![g] = "waiting", ![p] = "spawned"]
          /\ peak' = 0
          /\ Ran(<<StepHandle(p)>>)
          /\ UNCHANGED <<outcome, mustCancel, waiter, gpResult>>
     ELSE IF pc[g] = "woken_timeout" /\ pc[p] # "done"
     THEN /\ pc' = [pc EXCEPT ![g] = "draining"]
          /\ IF pc[p] = "racing" /\ waiter[p] = "pending"
             THEN /\ waiter' = [waiter EXCEPT ![p] = "cancelled"]
                  /\ Ran(<<StepHandle(p)>>)
                  /\ UNCHANGED mustCancel
             ELSE /\ mustCancel' = [mustCancel EXCEPT ![p] = TRUE]
                  /\ Ran(<<>>)
                  /\ UNCHANGED waiter
          /\ UNCHANGED <<outcome, peak, gpResult>>
     ELSE IF pc[g] = "draining" /\ outcome[p] = "cancelled"
     THEN /\ pc' = [pc EXCEPT ![g] = "done"]
          /\ outcome' = [outcome EXCEPT ![g] = "returned"]
          /\ gpResult' = Clamp(peak)
          /\ Ran(<<>>)
          /\ UNCHANGED <<mustCancel, waiter, peak>>
     ELSE /\ pc[g] \in {"woken_done", "woken_timeout", "draining"}
          /\ pc' = [pc EXCEPT ![g] = "done"]
          /\ outcome' = [outcome EXCEPT ![g] = outcome[p]]
          /\ Ran(<<>>)
          /\ UNCHANGED <<mustCancel, waiter, peak, gpResult>>
  /\ UNCHANGED <<ctxVars, futVars, cancelSent, startCtx, pendingExc, wdT, otT, held,
                 orphan, raceFirst, raceResult, raceInfo, streamVars, lifeVars, infoVars, amp>>

\* The timer of asyncio.wait_for(task, timeout) expires.
PeakTimerDue(g) ==
  /\ ntodo = 0
  /\ pc[g] = "waiting"
  /\ ~InReady(TimeoutHandle(g))
  /\ ready' = Append(ready, TimeoutHandle(g))
  /\ UNCHANGED <<ntodo, ctxVars, futVars, taskVars, raceVars, streamVars, lifeVars, extraVars>>

\* wait_for's timer callback, _release_waiter: get_peak_sample is resumed
\* unless the end of the task has released it already.
RunPeakTimeout(g) ==
  /\ Running(TimeoutHandle(g))
  /\ g \in GpTasks
  /\ IF pc[g] = "waiting"
     THEN /\ pc' = [pc EXCEPT ![g] = "woken_timeout"]
          /\ Ran(<<StepHandle(g)>>)
     ELSE /\ Ran(<<>>)
          /\ UNCHANGED pc
  /\ UNCHANGED <<ctxVars, futVars, outcome, mustCancel, cancelSent, startCtx, pendingExc,
                 raceVars, streamVars, lifeVars, extraVars>>

\* The done callback wait_for put on the subscriber task, _release_waiter.
RunRelease(g) ==
  /\ Running(ReleaseHandle(g))
  /\ IF pc[g] = "waiting"
     THEN /\ pc' = [pc EXCEPT ![g] = "woken_done"]
          /\ Ran(<<StepHandle(g)>>)
     ELSE /\ Ran(<<>>)
          /\ UNCHANGED pc
  /\ UNCHANGED <<ctxVars, futVars, outcome, mustCancel, cancelSent, startCtx, pendingExc,
                 raceVars, streamVars, lifeVars, extraVars>>

\* ---------------------------------------------------------------- info queries
\* The wrappers _pulse_get_list builds: by index (sink_info, ...), by name
\* (get_sink_by_name, ...), singleton (server_info) and list (sink_list, ...).
QueryKinds == {"index", "name", "singleton", "list"}
Records == 1..MaxRecords

\* One invocation of the info callback by libpulse: the record `info` points to
\* (0: NULL), the eof argument, and whether userdata is something else than
\* the None the wrapper passed.
InfoCall(i, e, u) == [info |-> i, eof |-> e, foreign |-> u]

\* The invocations libpulse makes for one request.  List and by-index/by-name
\* requests: one per record (a single record at most for an index or a name),
\* then one with eof > 0, or one with eof < 0 and no record when the server
\* answered with an error.  A singleton request has no eof argument: one
\* invocation, with the record or with NULL when the server answered with an
\* error.
RecordSeqs(n) == UNION {[1..k -> Records] : k \in 0..n}

ProperFeeds(kind) ==
  IF kind = "singleton"
  THEN {<<InfoCall(i, 0, FALSE)>> : i \in Records \cup {0}}
  ELSE {[k \in 1..(Len(rs) + 1) |->
           IF k <= Len(rs) THEN InfoCall(rs[k], 0, FALSE) ELSE InfoCall(0, e, FALSE)] :
          rs \in RecordSeqs(IF kind = "list" THEN MaxRecords ELSE 1), e \in {-1, 1}}
       \ {<<InfoCall(r, 0, FALSE), InfoCall(0, -1, FALSE)>> : r \in Records}

\* The stray invocations with userdata != NULL that _pulse_info_cb guards
\* against: at most one, anywhere among the proper ones.
WithStray(feed) ==
  {feed} \cup
  {[k \in 1..(Len(feed) + 1) |->
      IF k < p THEN feed[k] ELSE IF k = p THEN InfoCall(0, e, TRUE) ELSE feed[k - 1]] :
     p \in 1..(Len(feed) + 1), e \in {0, 1}}

Feeds(kind) ==
  IF kind = "singleton" THEN ProperFeeds(kind)
  ELSE UNION {WithStray(feed) : feed \in ProperFeeds(kind)}

\* _pulse_info_cb: `if userdata is not None: return`, `if eof: done_cb()`,
\* `else: data_list.append(info_cls(info[0]))`.
InfoCb(call, data) ==
  IF call.foreign THEN [data |-> data, done |-> FALSE]
  ELSE IF call.eof # 0 THEN [data |-> data, done |-> TRUE]
  ELSE [data |-> Append(data, call.info), done |-> FALSE]

\* The singleton callback, `data.append(info_cls(info[0])) or cb()`: info[0]
\* on a NULL pointer raises inside the ctypes callback, where the exception
\* is dropped, so that cb() is not reached.
SingletonCb(call, data) ==
  IF call.info = 0 THEN [data |-> data, done |-> FALSE]
  ELSE [data |-> Append(data, call.info), done |-> TRUE]

\* _wrapper_method after the request's future has its result:
\* `if index is not None or singleton: if not data: raise PulseIndexError(index)`,
\* then `data, = data` (ValueError unless there is exactly one), `return data`.
WrapperResult(kind, data) ==
  IF kind \in {"index", "name", "singleton"}
  THEN IF data = <<>> THEN [tag |-> "PulseIndexError", val |-> <<>>]
       ELSE IF Len(data) = 1 THEN [tag |-> "one", val |-> data]
       ELSE [tag |-> "ValueError", val |-> <<>>]
  ELSE [tag |-> "list", val |-> data]

\* A query has been issued on a ready connection: libpulse will make the
\* callback invocations of qFeed.
InitInfo ==
  /\ InitProgram
  /\ NoPeak
  /\ qKind \in QueryKinds
  /\ qFeed \in Feeds(qKind)
  /\ qPos = 1
  /\ qData = <<>>
  /\ qDone = FALSE
  /\ qResult = NoResult

\* libpulse makes the next callback invocation (none after the one that
\* completed the request, whose operation is then done).
InfoDispatch ==
  /\ qKind # "none"
  /\ ~qDone
  /\ qPos <= Len(qFeed)
  /\ LET r == IF qKind = "singleton" THEN SingletonCb(qFeed[qPos], qData)
              ELSE InfoCb(qFeed[qPos], qData) IN
     /\ qData' = r.data
     /\ qDone' = r.done
  /\ qPos' = qPos + 1
  /\ UNCHANGED <<qKind, qFeed, qResult>>
  /\ UNCHANGED <<loopVars, ctxVars, futVars, taskVars, raceVars, streamVars, lifeVars, peakVars>>

\* The wrapper resumes from `async with _pulse_op_cb(...)` and returns or raises.
InfoReturn ==
  /\ qDone
  /\ qResult = NoResult
  /\ qResult' = WrapperResult(qKind, qData)
  /\ UNCHANGED <<qKind, qFeed, qPos, qData, qDone>>
  /\ UNCHANGED <<loopVars, ctxVars, futVars, taskVars, raceVars, streamVars, lifeVars, peakVars>>

\* ---------------------------------------------------------------- specifications
\* Requests on a connection: connect(), direct requests, cancellation, the
\* server's replies and the loss of the connection.
NextOps ==
  \/ \E t \in ConnTasks \cup OpTasks : Spawn(t)
  \/ EnqueueIo
  \/ \E t \in ConnTasks \cup OpTasks : EnqueueCancel(t)
  \/ BeginBatch
  \/ \E t \in ConnTasks \cup OpTasks : RunCancel(t)
  \/ \E f \in Ops : \E ok \in BOOLEAN : RunSettle(f, ok)
  \/ NativeFail
  \/ NativeReady
  \/ \E f \in Ops : \E ok \in BOOLEAN : NativeOpComplete(f, ok)
  \/ IoDone
  \/ \E i \in Ops : OpStep(i)
  \/ \E r \in ConnTasks : WdStep(r)
  \/ \E r \in ConnTasks : OtStep(r)
  \/ \E r \in ConnTasks : WdDone(r)
  \/ \E r \in ConnTasks : OtDone(r)
  \/ \E r \in ConnTasks : OldStep(r)
  \/ RunNoop
  \/ \E r \in ConnTasks : ConnStep(r)

SpecOps == Init /\ [][NextOps]_vars

\* One event stream next to one direct request.
StreamOps == {1}
OneStream == {<<Kev, 1>>}
StreamFuts == StreamOps \cup {MaskFut(1), NullFut(1)}
EvWorld == ConnTasks \cup OneStream \cup ({Kop} \X StreamOps)

NextEv ==
  \/ \E t \in EvWorld : Spawn(t)
  \/ EnqueueIo
  \/ \E t \in EvWorld : EnqueueCancel(t)
  \/ BeginBatch
  \/ \E t \in EvWorld : RunCancel(t)
  \/ \E f \in StreamFuts : \E ok \in BOOLEAN : RunSettle(f, ok)
  \/ NativeFail
  \/ NativeReady
  \/ \E f \in StreamFuts : \E ok \in BOOLEAN : NativeOpComplete(f, ok)
  \/ NativeEvent
  \/ IoDone
  \/ \E i \in StreamOps : OpStep(i)
  \/ \E r \in ConnTasks \cup OneStream : WdStep(r)
  \/ \E r \in ConnTasks \cup OneStream : OtStep(r)
  \/ \E r \in ConnTasks \cup OneStream : WdDone(r)
  \/ \E r \in ConnTasks \cup OneStream : OtDone(r)
  \/ \E r \in ConnTasks \cup OneStream : OldStep(r)
  \/ RunNoop
  \/ \E r \in ConnTasks : ConnStep(r)
  \/ \E r \in OneStream : EvStep(r)
  \/ \E r \in OneStream : RunAclose(r)

SpecEv == Init /\ [][NextEv]_vars

\* Several tasks iterating subscribe_events() on one connection.
MaskFuts == {MaskFut(s) : s \in Streams} \cup {NullFut(s) : s \in Streams}

NextEvs ==
  \/ \E t \in ConnTasks \cup EvTasks : Spawn(t)
  \/ EnqueueIo
  \/ BeginBatch
  \/ \E f \in MaskFuts : \E ok \in BOOLEAN : RunSettle(f, ok)
  \/ NativeFail
  \/ NativeReady
  \/ \E f \in MaskFuts : \E ok \in BOOLEAN : NativeOpComplete(f, ok)
  \/ NativeEvent
  \/ IoDone
  \/ \E r \in ConnTasks \cup EvTasks : WdStep(r)
  \/ \E r \in ConnTasks \cup EvTasks : OtStep(r)
  \/ \E r \in ConnTasks \cup EvTasks : WdDone(r)
  \/ \E r \in ConnTasks \cup EvTasks : OtDone(r)
  \/ \E r \in ConnTasks \cup EvTasks : OldStep(r)
  \/ RunNoop
  \/ \E r \in ConnTasks : ConnStep(r)
  \/ \E r \in EvTasks : EvStep(r)
  \/ \E r \in EvTasks : RunAclose(r)

SpecEvs == Init /\ [][NextEvs]_vars

\* A peak-sample stream on a connection.
NextPk ==
  \/ \E t \in ConnTasks \cup PkTasks : Spawn(t)
  \/ EnqueueIo
  \/ \E t \in ConnTasks \cup PkTasks : EnqueueCancel(t)
  \/ BeginBatch
  \/ \E t \in ConnTasks \cup PkTasks : RunCancel(t)
  \/ NativeFail
  \/ NativeReady
  \/ \E buf \in PlainBufs : NativeRead(buf)
  \/ IoDone
  \/ \E r \in ConnTasks \cup PkTasks : WdStep(r)
  \/ \E r \in ConnTasks \cup PkTasks : OtStep(r)
  \/ \E r \in ConnTasks \cup PkTasks : WdDone(r)
  \/ \E r \in ConnTasks \cup PkTasks : OtDone(r)
  \/ \E r \in ConnTasks \cup PkTasks : OldStep(r)
  \/ RunNoop
  \/ \E r \in ConnTasks : ConnStep(r)
  \/ \E r \in PkTasks : RunAclose(r)
  \/ \E r \in PkTasks : PkStep(r)

SpecPk == Init /\ [][NextPk]_vars

\* connect() with and without a timeout, a later connect(), cancellation and
\* close() on one instance.
NextLife ==
  \/ \E t \in AllConn : \E withTimeout \in BOOLEAN : SpawnConnect(t, withTimeout)
  \/ EnqueueIo
  \/ \E t \in AllConn : EnqueueCancel(t)
  \/ \E r \in AllConn : EnqueueTimeout(r)
  \/ BeginBatch
  \/ \E t \in AllConn : RunCancel(t)
  \/ \E r \in AllConn : RunTimeout(r)
  \/ NativeFail
  \/ NativeReady
  \/ IoDone
  \/ \E r \in AllConn : WdStep(r)
  \/ \E r \in AllConn : OtStep(r)
  \/ \E r \in AllConn : WdDone(r)
  \/ \E r \in AllConn : OtDone(r)
  \/ \E r \in AllConn : OldStep(r)
  \/ RunNoop
  \/ \E r \in AllConn : ConnStep(r)
  \/ Disconnect
  \/ Close

SpecLife == Init /\ [][NextLife]_vars

\* One info query from the request to the wrapper's return.
NextInfo ==
  \/ InfoDispatch
  \/ InfoReturn

SpecInfo == InitInfo /\ [][NextInfo]_vars

\* get_peak_sample on a connection: its subscriber task, its timer, the
\* server's samples and the loss of the connection.
PeakWorld == ConnTasks \cup PkTasks

NextPeak ==
  \/ \E t \in ConnTasks \cup GpTasks : Spawn(t)
  \/ EnqueueIo
  \/ \E g \in GpTasks : PeakTimerDue(g)
  \/ BeginBatch
  \/ NativeFail
  \/ NativeReady
  \/ \E buf \in PeekBufs : NativeRead(buf)
  \/ IoDone
  \/ \E r \in PeakWorld : WdStep(r)
  \/ \E r \in PeakWorld : OtStep(r)
  \/ \E r \in PeakWorld : WdDone(r)
  \/ \E r \in PeakWorld : OtDone(r)
  \/ \E r \in PeakWorld : OldStep(r)
  \/ RunNoop
  \/ \E r \in ConnTasks : ConnStep(r)
  \/ \E r \in PkTasks : PkStep(r)
  \/ \E g \in GpTasks : GpStep(g)
  \/ \E g \in GpTasks : RunPeakTimeout(g)
  \/ \E g \in GpTasks : RunRelease(g)

SpecPeak == Init /\ [][NextPeak]_vars

\* ================================================================ claims
\* ---------------------------------------------------------------- C1
\* C1: when the state callback reports FAILED or TERMINATED, every future that
\* is in waiting_futures and still pending at that moment is rejected with
\* PulseDisconnected in that same callback step, whatever the state of the
\* other futures in the set.
C1_BroadcastRejectsAllPending ==
  [][(ctxState \notin {"failed", "terminated"} /\ ctxState' \in {"failed", "terminated"})
       => \A f \in FutIds :
            (f \in waiting_futures /\ fut[f] = "pending") => fut'[f] = "disconnected"]_vars

\* ---------------------------------------------------------------- C2
\* C2: no settlement (set_result or set_exception) is ever applied to a future
\* that is already settled or cancelled, over any interleaving of the native
\* completion callback, the disconnect broadcast and cancellation.
C2_NoSettlementOfDoneFuture == ~invalidState

\* ---------------------------------------------------------------- C3
\* C3: waiting_futures holds exactly the futures of the operations that are
\* between entering and leaving _pulse_op_cb, however each operation ended; it
\* is empty when no operation is in progress.
InProgress(f) == AwaitedFut(AwaiterOf(f)) = f

C3_WaitingFuturesExact == waiting_futures = {f \in FutIds : InProgress(f)}

\* Two requests have ended, one cancelled and one rejected by the disconnect
\* broadcast, and the set is empty again.
C3_Witness ==
  /\ \E i \in Ops : outcome[<<Kop, i>>] = "cancelled" /\ fut[i] = "cancelled"
  /\ \E i \in Ops : outcome[<<Kop, i>>] = "disconnected"
  /\ waiting_futures = {}

\* ---------------------------------------------------------------- C4
\* C4: no operation is left registered in waiting_futures with an unsettled
\* future once the connection has failed or terminated: one started afterwards
\* fails at once, one registered before is rejected by the state callback.
C4_NoneLeftRegisteredUnsettled ==
  ctxState \in {"failed", "terminated"}
    => \A f \in FutIds : ~(f \in waiting_futures /\ fut[f] = "pending")

\* ---------------------------------------------------------------- C5
Ended(r) == raceResult[r] \in {"result", "disconnected"}
SignalFirst == {"signal", "preset", "preset_q"}
RacersPk == ConnTasks \cup PkTasks

\* C5: _wait_disconnect_or(f) returns f's result when f completes before the
\* disconnected signal is set, and raises PulseDisconnected when the signal is
\* set while f is still pending.
C5_SignalFirstRaises ==
  \A r \in RacersPk :
    Ended(r) =>
      /\ raceInfo[r].first = "f" => raceResult[r] = "result"
      /\ raceInfo[r].first \in SignalFirst => raceResult[r] = "disconnected"

\* C5 (amended): f's result is returned whenever f's task is done when the
\* caller resumes from asyncio.wait, which covers f completing before the
\* signal; PulseDisconnected is raised only when the signal has been set and
\* f's task is still pending when the caller resumes.
C5_ResultIfDoneAtResume ==
  \A r \in RacersPk :
    Ended(r) =>
      /\ raceResult[r] = "result" <=> raceInfo[r].ot = "done"
      /\ raceInfo[r].first = "f" => raceResult[r] = "result"
      /\ raceResult[r] = "disconnected" =>
           raceInfo[r].first \in SignalFirst /\ raceInfo[r].wd = "done"

\* The peak stream yielded a sample and its next wait ended with
\* PulseDisconnected, the signal having been set while queue.get() was pending.
C5_Witness ==
  \E r \in PkTasks :
    /\ got[r] # <<>>
    /\ raceResult[r] = "disconnected"
    /\ raceInfo[r].first = "signal"
    /\ raceInfo[r].ot = "waiting"

\* ---------------------------------------------------------------- C6
\* C6: when _wait_disconnect_or returns or raises, neither inner task is still
\* pending: the loser's cancellation has completed.
C6_NoPendingInnerAtReturn == \A r \in RacersPk : orphan[r] = 0

\* C6 (amended): when _wait_disconnect_or returns or raises, cancellation has
\* been requested on every inner task that is still pending; each such task
\* has exactly one step scheduled on the loop, which ends it, and at most the
\* two tasks of one race are in that state.
C6_PendingInnerScheduledToEnd ==
  \A r \in RacersPk : orphan[r] = CountReady(OldStepHandle(r)) /\ orphan[r] <= 2

\* The stream ended with PulseDisconnected while the task wrapping queue.get()
\* was suspended: that task is still pending after the race has raised.
C6_Witness ==
  \E r \in PkTasks :
    /\ pc[r] = "done"
    /\ raceResult[r] = "disconnected"
    /\ raceInfo[r].ot = "waiting"
    /\ orphan[r] = 1

\* ---------------------------------------------------------------- C7
\* C7: when the task awaiting _wait_disconnect_or is cancelled from outside,
\* its next step cancels both inner tasks and ends with CancelledError: no
\* result is delivered and no PulseDisconnected is raised.
C7_OuterCancelPropagates ==
  [][\A r \in RacersPk :
       (Running(StepHandle(r)) /\ pc[r] = "racing"
          /\ (mustCancel[r] \/ waiter[r] = "cancelled"))
       => /\ raceResult'[r] = "cancelled"
          /\ outcome'[r] = "cancelled"
          /\ got'[r] = got[r]
          /\ wdT'[r] = "none" /\ otT'[r] = "none"
          /\ orphan'[r] = orphan[r] + Cardinality(PendingInner(r))
          /\ orphan'[r] = Cardinality({k \in DOMAIN ready' : ready'[k] = OldStepHandle(r)})]_vars

\* The stream's consumer was cancelled after queue.get() had completed with a
\* sample: it saw the cancellation, not the sample.
C7_Witness ==
  \E r \in PkTasks :
    /\ raceResult[r] = "cancelled"
    /\ outcome[r] = "cancelled"
    /\ raceInfo[r].ot = "done"
    /\ got[r] = <<>>

\* ---------------------------------------------------------------- C8
\* C8: no consumer of a stream stays blocked in a request for an item once the
\* connection has left the ready state: with the connection failed and nothing
\* left to run on the loop, no consumer is suspended in subscribe_events.
C8_NoConsumerStaysBlocked ==
  \A r \in OneStream :
    ~(/\ pc[r] \in {"mask_wait", "racing"}
      /\ ctxState \in {"failed", "terminated"}
      /\ ~cancelSent[r]
      /\ ntodo = 0
      /\ ready = <<>>)

\* ---------------------------------------------------------------- C9
\* C9: an item requested from a stream once the disconnected signal is set
\* raises PulseDisconnected: such a request never yields an item.
C9_RequestAfterSignalRaises ==
  \A r \in OneStream :
    raceInfo[r].first \in {"preset", "preset_q"} => raceResult[r] # "result"

\* C9 (amended): an item requested once the disconnected signal is set raises
\* PulseDisconnected (or CancelledError, if the consumer is cancelled) when the
\* stream's queue is empty at that moment; items that were queued before are
\* still yielded, in the order they arrived.
C9_RequestOnEmptyQueueRaises ==
  \A r \in OneStream :
    /\ raceInfo[r].first = "preset" => raceResult[r] \in {"disconnected", "cancelled"}
    /\ \A k \in DOMAIN got[r] : got[r][k] = k

\* Two notifications were yielded, the second requested after the signal was
\* set, and the request after that raised PulseDisconnected.
C9_Witness ==
  \E r \in OneStream :
    /\ got[r] = <<1, 2>>
    /\ raceInfo[r].first = "preset"
    /\ raceResult[r] = "disconnected"

\* ---------------------------------------------------------------- C10
\* C10: starting a second subscribe_events stream while one is active raises
\* RuntimeError and leaves the first alone: event_callback still refers to the
\* first stream's queue, no subscription-mask request is issued, and the
\* notifications that follow still go to the first stream's queue.
C10_SecondStreamRejected ==
  [][/\ \A r \in EvTasks :
          (Running(StepHandle(r)) /\ pc[r] = "spawned" /\ event_callback # 0)
          => /\ outcome'[r] = "runtime_error"
             /\ pc'[r] = "done"
             /\ event_callback' = event_callback
             /\ maskCalls' = maskCalls
             /\ maskOn' = maskOn
             /\ queue' = queue
             /\ waiting_futures' = waiting_futures
             /\ fut' = fut
     /\ ((\E r \in EvTasks : outcome[r] = "runtime_error")
           /\ event_callback # 0 /\ nEmitted' # nEmitted)
        => queue'[<<Kev, event_callback>>]
             = Append(queue[<<Kev, event_callback>>], nEmitted')]_vars

\* The second stream was refused while the first held the slot, and the first
\* has yielded every notification the server sent.
C10_Witness ==
  /\ outcome[<<Kev, 2>>] = "runtime_error"
  /\ event_callback = 1
  /\ pc[<<Kev, 1>>] = "racing"
  /\ Len(got[<<Kev, 1>>]) = MaxEvents

\* ---------------------------------------------------------------- C11
\* The step of stream r in which its generator leaves the `try` of
\* subscribe_events (by an exception, a cancellation, a disconnection or
\* GeneratorExit).
Terminates(r) ==
  /\ Running(StepHandle(r))
  /\ \/ pc[r] \in {"mask_wait", "racing", "closing"} /\ pc'[r] \in {"null_wait", "done"}
     \/ pc[r] = "spawned" /\ outcome'[r] = "callerror"

\* C11: when an event stream terminates, event_callback is cleared, and a
\* request resetting the subscription mask to 'null' is issued if and only if
\* the connection is connected at that moment.
C11_TerminationClearsSlot ==
  [][\A r \in OneStream :
       Terminates(r) =>
         /\ event_callback' = 0
         /\ (maskCalls'[r[2]] = maskCalls[r[2]] + 1) <=> connected
         /\ (NullFut(r[2]) \in waiting_futures' /\ nativeOp'[NullFut(r[2])] = "outstanding")
              <=> connected]_vars

\* A stream ended by `break` while connected has reset the mask (second
\* context_subscribe call) and finished, the slot being empty.
C11_Witness ==
  \E r \in OneStream :
    /\ pc[r] = "done"
    /\ outcome[r] = "closed"
    /\ maskCalls[r[2]] = 2
    /\ event_callback = 0

\* ---------------------------------------------------------------- C12
\* C12: once a consumer has ended an event stream by breaking out of the
\* iteration, the connection is reusable: a new subscribe_events started from
\* then on does not raise RuntimeError, and no further notification is put in
\* the ended stream's queue.
C12_ReusableAfterBreak ==
  [][\A r \in EvTasks :
       pc[r] \in {"broken", "closing"} =>
         /\ queue'[r] = queue[r]
         /\ \A r2 \in EvTasks \ {r} :
              (Running(StepHandle(r2)) /\ pc[r2] = "spawned")
                => outcome'[r2] # "runtime_error"]_vars

\* ---------------------------------------------------------------- C13
\* The item other_task has taken from the queue and not yet handed over.
InHand(r) == IF held[r] = 0 THEN <<>> ELSE <<held[r]>>

\* C13: the notifications an event stream yields are those the subscription
\* callback handed to its slot, in the same order and each once; while the
\* stream is active none is lost: what is not yet yielded is in its queue or
\* in the hands of its getter task.
C13_YieldsWhatWasDelivered ==
  \A r \in OneStream :
    /\ Len(got[r]) <= Len(delivered[r])
    /\ got[r] = SubSeq(delivered[r], 1, Len(got[r]))
    /\ pc[r] \in {"mask_wait", "racing"} =>
         got[r] \o InHand(r) \o queue[r] = delivered[r]

\* The stream has yielded the first notification and the second one waits in
\* its queue.
C13_Witness ==
  \E r \in OneStream :
    /\ pc[r] = "racing"
    /\ got[r] = <<1>>
    /\ queue[r] = <<2>>
    /\ delivered[r] = <<1, 2>>

C15_TimeoutDisconnectsFirst ==
  [][\A r \in AllConn :
       /\ (Running(StepHandle(r)) /\ pc[r] = "racing" /\ waiter[r] = "timedout"
             /\ ~mustCancel[r])
          => /\ outcome'[r] = "timeout"
             /\ disconnected' /\ ~connected'
             /\ ctxState' \notin {"connecting", "ready"}
       /\ (outcome[r] # "timeout" /\ outcome'[r] = "timeout") => disconnected']_vars

C15_Witness ==
  /\ outcome[<<Kconn, 1>>] = "timeout"
  /\ timed[<<Kconn, 1>>] = "fired"
  /\ ctxState = "terminated"
  /\ disconnected /\ ~connected

\* C16: a close() on an instance that has been closed before makes no native
\* call (no context_disconnect, no context_unref) and changes nothing of the
\* instance or the loop, also after a connect() that failed.
C16_CloseIdempotent ==
  [][(closes > 0 /\ closes' = closes + 1)
       => UNCHANGED <<loopVars, ctxVars, futVars, taskVars, raceVars, streamVars,
                      ctx, ctxReleased, timed, delivered, pkNative, ctxMade, connSaw>>]_vars

C16_Witness ==
  /\ closes = MaxCloses
  /\ outcome[<<Kconn, 1>>] = "pulse_error"
  /\ ctx = 0
  /\ ctxReleased[1] = 1 /\ ctxReleased[0] = 0

\* C17: no native context handle is released twice, context_unref is never
\* called without a handle, the handle the instance holds (the only one it
\* passes to native calls) has not been released, and once close() has
\* returned every handle the instance created has been released exactly once.
C17_HandleReleasedOnce ==
  /\ \A h \in CtxIds : ctxReleased[h] <= 1
  /\ ctxReleased[0] = 0
  /\ ctx # 0 => (ctx = ctxMade /\ ctxReleased[ctx] = 0)
  /\ \A h \in CtxIds : (h < ctxMade => ctxReleased[h] = 1) /\ (h > ctxMade => ctxReleased[h] = 0)
  /\ closes > 0 => (ctx = 0 /\ \A h \in 1..ctxMade : ctxReleased[h] = 1)

C17_Witness ==
  /\ closes = 1
  /\ ctxMade = 2
  /\ ctxReleased[1] = 1 /\ ctxReleased[2] = 1
  /\ outcome[<<Kconn, 2>>] = "ok"

\* C18: a connect() that finds _connected or _disconnected set releases the
\* context handle it held, takes a fresh one that has never been released,
\* and issues context_connect on that fresh, unconnected context with both
\* events clear.
C18_ReconnectReinitializes ==
  [][\A r \in AllConn :
       (Running(StepHandle(r)) /\ pc[r] = "spawned" /\ ~mustCancel[r]
          /\ (connected \/ disconnected))
       => /\ ctxReleased'[ctx] = ctxReleased[ctx] + 1
          /\ ctx' \notin {0, ctx}
          /\ ctxMade' = ctxMade + 1
          /\ ctxReleased[ctx'] = 0 /\ ctxReleased'[ctx'] = 0
          /\ connSaw'[r] = [handle |-> ctx', state |-> "unconnected",
                            connected |-> FALSE, disconnected |-> FALSE]]_vars

C18_Witness ==
  /\ outcome[<<Kconn, 1>>] = "pulse_error"
  /\ outcome[<<Kconn, 2>>] = "ok"
  /\ connSaw[<<Kconn, 2>>].handle = 2
  /\ ctxReleased[1] = 1
  /\ connected /\ ~disconnected

\* C19: __aenter__ is connect(), and once __aexit__ (close()) has run on a
\* session that was entered, whatever happened inside it, the instance is
\* disconnected (_disconnected set, _connected clear, no live native
\* context) and holds no handle, every handle it created having been released.
C19_SessionExitReleases ==
  (closes > 0 /\ outcome[<<Kconn, 1>>] = "ok")
    => /\ disconnected /\ ~connected
       /\ ~CtxGood
       /\ ctx = 0
       /\ \A h \in 1..ctxMade : ctxReleased[h] = 1

C19_Witness ==
  /\ closes = 1
  /\ outcome[<<Kconn, 1>>] = "ok"
  /\ ctxMade = 1
  /\ ctxState = "none"
  /\ disconnected /\ ~connected /\ ctx = 0 /\ ctxReleased[1] = 1

\* ---------------------------------------------------------------- sample stream teardown
\* C20: once the iteration of subscribe_peak_sample() has ended, on whatever
\* path, the native stream it created has been released exactly once, and at
\* no time has it been released more often than created or disconnected more
\* than once.
C20_StreamReleasedOnce ==
  /\ pkNative.unrefs <= pkNative.created
  /\ pkNative.disconnects <= 1
  /\ \A r \in PkTasks : pc[r] = "done" => pkNative.unrefs = pkNative.created

\* ---------------------------------------------------------------- the two events
\* C26: as long as connect() has not been called on it, the instance has
\* _disconnected set and _connected clear.
C26_FreshInstanceDisconnected ==
  (\A r \in AllConn : pc[r] = "idle") => (disconnected /\ ~connected)

\* C27: _connected and _disconnected are never both set.
C27_NeverBothSet == ~(connected /\ disconnected)

\* The state callback for READY finds _disconnected set: a connect() that was
\* cancelled left the context connecting, the next one was rejected by
\* context_connect and set _disconnected, and then the server accepted.
C27_Witness ==
  /\ connected /\ ~disconnected
  /\ ctxState = "ready"
  /\ outcome[<<Kconn, 1>>] = "cancelled"
  /\ outcome[<<Kconn, 2>>] = "pulse_error"
  /\ connSaw[<<Kconn, 2>>].state = "connecting"

\* ---------------------------------------------------------------- peak samples
\* C21: one invocation of read_cb leaves the queue as it is when the peeked
\* buffer is a hole or shorter than one sample, and appends exactly one
\* sample to it otherwise; the invocation completes in the reader callback
\* that runs it.
C21_ReadCbEnqueuesOneOrNone ==
  [][\A b \in PlainBufs :
       NativeRead(b) =>
         /\ queue'[<<Kpk, 1>>] =
              IF b.null \/ b.nbytes < SampleWidth THEN queue[<<Kpk, 1>>]
              ELSE Append(queue[<<Kpk, 1>>], nEmitted')
         /\ ntodo' = ntodo]_vars

C21_Witness ==
  /\ nEmitted = MaxEvents
  /\ got[<<Kpk, 1>>] = <<1>>
  /\ queue[<<Kpk, 1>>] = <<>>
  /\ held[<<Kpk, 1>>] = 0
  /\ pc[<<Kpk, 1>>] = "racing"

\* ---------------------------------------------------------------- cancellation
\* The futures a task registers in waiting_futures.
TaskFuts(t) == IF t[1] = Kev THEN {MaskFut(t[2]), NullFut(t[2])} ELSE {t[2]}

\* task.cancel() has reached the unfinished task t: the future it awaits was
\* cancelled, or the cancellation waits for its next step, or its `finally`
\* is running on behalf of the CancelledError.
CancelDelivered(t) ==
  /\ pc[t] \notin {"idle", "done"}
  /\ \/ mustCancel[t]
     \/ t \in Racers /\ waiter[t] = "cancelled"
     \/ AwaitedFut(t) # 0 /\ fut[AwaitedFut(t)] = "cancelled"
     \/ pendingExc[t] = "cancelled"

\* C25: a task awaiting a direct request or an event stream that a
\* cancellation has reached ends as cancelled, with none of its futures left
\* in waiting_futures and, for a stream, the subscriber slot no longer its own.
C25_CancelledEndsCancelledAndClean ==
  [][\A t \in EvWorld \ ConnTasks :
       (CancelDelivered(t) /\ pc'[t] = "done")
       => /\ outcome'[t] = "cancelled"
          /\ TaskFuts(t) \cap waiting_futures' = {}
          /\ t[1] = Kev => event_callback' # t[2]]_vars

\* ---------------------------------------------------------------- info queries
\* The records libpulse delivered for the query: the proper invocations made
\* so far that carry one.
DeliveredRecords ==
  LET made == SubSeq(qFeed, 1, qPos - 1)
      kept == SelectSeq(made, LAMBDA call : ~call.foreign /\ call.eof = 0 /\ call.info # 0)
  IN [k \in DOMAIN kept |-> kept[k].info]

\* libpulse has made every invocation for the query and the wrapper is not
\* about to resume.
QueryOver == qKind # "none" /\ qPos > Len(qFeed) /\ (qDone => qResult # NoResult)

\* C24: once the server has answered, a query by index, by name or a
\* singleton query has raised PulseIndexError if no record was delivered and
\* has returned the one delivered record otherwise; a list query has returned
\* the delivered records in the order of delivery.
C24_QueryResult ==
  QueryOver =>
    qResult = IF qKind = "list" THEN [tag |-> "list", val |-> DeliveredRecords]
              ELSE IF DeliveredRecords = <<>> THEN [tag |-> "PulseIndexError", val |-> <<>>]
              ELSE [tag |-> "one", val |-> DeliveredRecords]

\* The volumes the sample stream yielded to the subscriber of get_peak_sample.
YieldedLevels == {amp[got[<<Kpk, 1>>][k]] : k \in DOMAIN got[<<Kpk, 1>>]}

Highest(S) == CHOOSE x \in S : \A y \in S : y <= x

\* C22: when get_peak_sample returns, its value is the maximum of the samples
\* the internal stream yielded, held within 0 .. 1.0 (FullScale): 0 when no
\* sample was yielded, 1.0 when a sample was above 1.0.
C22_PeakIsClampedMaximum ==
  outcome[<<Kgp, 1>>] = "returned" =>
    /\ gpResult = (IF Highest({0} \cup YieldedLevels) > FullScale
                   THEN FullScale ELSE Highest({0} \cup YieldedLevels))
    /\ gpResult >= 0
    /\ gpResult <= FullScale
    /\ YieldedLevels = {} => gpResult = 0

\* get_peak_sample has returned 1.0 after a sample above 1.0 was yielded.
C22_Witness ==
  /\ outcome[<<Kgp, 1>>] = "returned"
  /\ \E v \in YieldedLevels : v > FullScale
  /\ gpResult = FullScale

\* C23: once get_peak_sample has returned or raised, its subscriber task has
\* finished and the sample stream it created has been released.
C23_SubscriberFinishedAndStreamReleased ==
  pc[<<Kgp, 1>>] = "done" =>
    /\ pc[<<Kpk, 1>>] = "done"
    /\ pkNative.unrefs = pkNative.created

====
